---- MODULE Spec2Model ----
(***************************************************************************)
(* Model of the homework planner's record engine (src/server.js).          *)
(*                                                                         *)
(* The persisted set is the content of homework.json, a JSON array that    *)
(* every handler reads whole (loadHomeworks), changes in memory and        *)
(* writes back whole (saveHomeworks).  One action models one request,      *)
(* middleware included.  templates.json is read and written the same way   *)
(* (loadTemplates, saveTemplates), and the uploads directory is the set    *)
(* of the names of the files multer stored in it.                          *)
(*                                                                         *)
(* Value encodings.                                                        *)
(*   ids          positive integers; 0 is a falsy id (null, "", missing).  *)
(*                uuidv4() is the counter nextId.                          *)
(*   parentId,    integers; 0 is null.                                     *)
(*   nextOccurrence                                                        *)
(*   dueDate      days since 1970-01-01 (19723 is 2024-01-01); 0 is a      *)
(*                missing or empty value and BadDate a string that Date    *)
(*                cannot parse.  The host's time zone is UTC, so that      *)
(*                getDate/setDate/getDay work on the same calendar day as  *)
(*                toISOString.                                             *)
(*   createdAt,   readings of the host clock (milliseconds as ticks).      *)
(*   updatedAt                                                             *)
(*   strings      "" is the empty string, Null the JSON null.              *)
(* JSON.stringify followed by JSON.parse leaves every value of these       *)
(* domains as it is (no undefined, NaN or Date object is ever stored), so  *)
(* the file content is the sequence of records that was written.           *)
(***************************************************************************)
EXTENDS Integers, Sequences, FiniteSets, TLC

VARIABLES
    homeworks,   \* content of homework.json: sequence of records
    nextId,      \* next value uuidv4() returns
    clock,       \* last reading of the host clock
    request,     \* the request handled last
    response,    \* the response sent for it
    prev,        \* content of homework.json when that request arrived
    templates,   \* content of templates.json: sequence of records
    uploads,     \* names of the files in the uploads directory
    wrote,       \* outcome of the write that request made ("none": no write)
    pending,     \* the handler of a second server process that has read
                 \* homework.json and not written it yet
    prevUploads  \* the uploads directory when the last request arrived

vars == <<homeworks, nextId, clock, request, response, prev,
          templates, uploads, wrote, pending, prevUploads>>

----------------------------------------------------------------------------
(* Bounds *)

\* Requests are accepted while clock < MaxClock.
MaxClock == 3

\* Create is accepted while the records it adds fit in MaxHomeworks.
MaxHomeworks == 5

----------------------------------------------------------------------------
(* Values *)

Null == "<null>"
BadDate == 0 - 1

\* Date.prototype.getDay() of a day number (1970-01-01 was a Thursday).
GetDay(d) == (d + 4) % 7

NoSession == [teacherEmail |-> "", teacherName |-> "", isAdmin |-> FALSE]

\* req.session of an authenticated caller.
Sessions ==
    { [teacherEmail |-> "a@school", teacherName |-> "Ann", isAdmin |-> FALSE],
      [teacherEmail |-> "b@school", teacherName |-> "Bob", isAdmin |-> FALSE],
      [teacherEmail |-> "root@school", teacherName |-> "Root", isAdmin |-> TRUE] }

DefaultRecurrence == [type |-> "none", interval |-> 1, daysOfWeek |-> <<>>]

NoPayload == [op |-> "none"]

\* No handler of the second process is between its read and its write.
NoPending == [pc |-> "idle"]

----------------------------------------------------------------------------
(* Sequence helpers (Array.prototype.filter / find / findIndex / includes) *)

Includes(s, x) == \E i \in 1..Len(s) : s[i] = x

\* findIndex: the least index whose element satisfies Test, 0 when none does.
FindIndex(s, Test(_)) ==
    IF \E i \in 1..Len(s) : Test(s[i])
    THEN CHOOSE i \in 1..Len(s) : Test(s[i]) /\ \A j \in 1..(i-1) : ~Test(s[j])
    ELSE 0

Ids(list) == { list[i].id : i \in 1..Len(list) }

----------------------------------------------------------------------------
(* loadHomeworks / saveHomeworks *)

StrOr(v, d) == IF v = "" \/ v = Null THEN d ELSE v
IntOr(v, d) == IF v = 0 THEN d ELSE v

\* Number of records before position i whose id is falsy (each draws a uuid).
RECURSIVE FalsyBefore(_, _)
FalsyBefore(file, i) ==
    IF i <= 1 THEN 0
    ELSE FalsyBefore(file, i - 1) + (IF file[i-1].id = 0 THEN 1 ELSE 0)

FalsyCount(file) == FalsyBefore(file, Len(file) + 1)

\* The map callback of loadHomeworks: every field is `hw.f || default`.
\* t is the clock reading used for missing dates, fresh the uuid drawn for a
\* falsy id.
Normalize(hw, fresh, t) ==
    [ id             |-> IntOr(hw.id, fresh),
      title          |-> StrOr(hw.title, "Untitled"),
      subject        |-> StrOr(hw.subject, ""),
      description    |-> StrOr(hw.description, ""),
      dueDate        |-> IntOr(hw.dueDate, t),
      createdAt      |-> IntOr(hw.createdAt, t),
      updatedAt      |-> IntOr(hw.updatedAt, t),
      completed      |-> hw.completed,
      priority       |-> StrOr(hw.priority, "medium"),
      tags           |-> hw.tags,
      attachments    |-> hw.attachments,
      teacherEmail   |-> StrOr(hw.teacherEmail, ""),
      teacherName    |-> StrOr(hw.teacherName, ""),
      yearGroup      |-> StrOr(hw.yearGroup, ""),
      className      |-> StrOr(hw.className, ""),
      isRecurring    |-> hw.isRecurring,
      recurrence     |-> hw.recurrence,
      nextOccurrence |-> hw.nextOccurrence,
      parentId       |-> hw.parentId,
      comments       |-> hw.comments ]

\* loadHomeworks(): the file content, normalized.  A missing or empty file
\* is the empty sequence.  n is the next uuid, t the clock reading.
loadHomeworks(file, n, t) ==
    [ i \in 1..Len(file) |-> Normalize(file[i], n + FalsyBefore(file, i), t) ]

\* The list saveHomeworks writes: every record restamped with the time of
\* the write.
Sanitized(list, t) ==
    [ i \in 1..Len(list) |-> [list[i] EXCEPT !.updatedAt = t] ]

\* Outcome of fs.writeFileSync: the file is replaced; or the call fails
\* before the file is opened (file intact); or it fails after the file was
\* truncated, and what is left does not parse, which loadHomeworks reads as [].
WriteOutcomes == {"ok", "intact", "truncated"}

\* What the host does during one request: the outcomes a write can have
\* and the number of ticks the clock can advance between two readings.
Env == [writes |-> WriteOutcomes, ticks |-> {0, 1}]

\* A host whose disk does not fail and whose clock does not tick during a
\* request.
Calm == [writes |-> {"ok"}, ticks |-> {0}]

\* Readings of the host clock that can follow the reading t.
Later(t, E) == { t + d : d \in E.ticks }

\* A write and the clock reading saveHomeworks stamps the records with,
\* given the reading t before it.  The stamp of a failed write is stored
\* nowhere, so one reading stands for it.
SaveResults(t, E) ==
    { <<"ok", ts>> : ts \in Later(t, E) } \cup
    { <<w, t>> : w \in E.writes \ {"ok"} }

Written(file, list, t, w) ==
    CASE w = "ok"        -> Sanitized(list, t)
      [] w = "intact"    -> file
      [] w = "truncated" -> <<>>

----------------------------------------------------------------------------
(* Responses *)

NoData == <<>>

Reply(status, code, data, count) ==
    [status |-> status, code |-> code, data |-> data, count |-> count]

Unauthorized == Reply(401, "AUTH_REQUIRED", NoData, 0)

\* requireTeacher (the second declaration, which is the one in effect).
requireTeacher(s) == s.teacherEmail # ""

----------------------------------------------------------------------------
(* POST /api/homework *)

\* recurrence as stored on the record.
StoredRecurrence(isRecurring, recurrence) ==
    IF isRecurring
    THEN [ type       |-> StrOr(recurrence.type, "none"),
           interval   |-> IF recurrence.interval >= 1 THEN recurrence.interval ELSE 1,
           daysOfWeek |-> SelectSeq(recurrence.daysOfWeek,
                                    LAMBDA d : d >= 0 /\ d <= 6) ]
    ELSE DefaultRecurrence

\* The values the destructuring of req.body gives the fields a body leaves
\* out: the defaults of lines 654-665, and undefined (an empty value) for
\* the fields without one.
BodyDefaults ==
    [ title |-> "", subject |-> "", description |-> "", dueDate |-> 0,
      priority |-> "medium", tags |-> <<>>, isRecurring |-> FALSE,
      recurrence |-> DefaultRecurrence, yearGroup |-> "", className |-> "" ]

\* req.body as the handler reads it.  Fields the destructuring does not
\* name stay in the body and are read by nothing.
Destructure(body) == body @@ BodyDefaults

\* newHomework built over the request body: the owner, the completed flag,
\* the comments and the attachments are the body's when it names them.
NewHomeworkFromBody(id, p, s, tc, tu) ==
    [ id             |-> id,
      title          |-> p.title,
      subject        |-> p.subject,
      description    |-> StrOr(p.description, ""),
      dueDate        |-> p.dueDate,
      createdAt      |-> tc,
      updatedAt      |-> tu,
      completed      |-> IF "completed" \in DOMAIN p THEN p.completed ELSE FALSE,
      priority       |-> p.priority,
      tags           |-> p.tags,
      attachments    |-> IF "attachments" \in DOMAIN p THEN p.attachments ELSE <<>>,
      teacherEmail   |-> IF "teacherEmail" \in DOMAIN p THEN p.teacherEmail
                         ELSE s.teacherEmail,
      teacherName    |-> IF "teacherName" \in DOMAIN p THEN p.teacherName
                         ELSE s.teacherName,
      yearGroup      |-> StrOr(p.yearGroup, Null),
      className      |-> StrOr(p.className, Null),
      isRecurring    |-> p.isRecurring,
      recurrence     |-> StoredRecurrence(p.isRecurring, p.recurrence),
      nextOccurrence |-> 0,
      parentId       |-> 0,
      comments       |-> IF "comments" \in DOMAIN p THEN p.comments ELSE <<>> ]

\* The object literal newHomework.  tc and tu are the two clock readings.
NewHomework(id, p, s, tc, tu) ==
    [ id             |-> id,
      title          |-> p.title,
      subject        |-> p.subject,
      description    |-> StrOr(p.description, ""),
      dueDate        |-> p.dueDate,
      createdAt      |-> tc,
      updatedAt      |-> tu,
      completed      |-> FALSE,
      priority       |-> p.priority,
      tags           |-> p.tags,
      attachments    |-> <<>>,
      teacherEmail   |-> s.teacherEmail,
      teacherName    |-> s.teacherName,
      yearGroup      |-> StrOr(p.yearGroup, Null),
      className      |-> StrOr(p.className, Null),
      isRecurring    |-> p.isRecurring,
      recurrence     |-> StoredRecurrence(p.isRecurring, p.recurrence),
      nextOccurrence |-> 0,
      parentId       |-> 0,
      comments       |-> <<>> ]

\* Number of records one recurring Create produces.
Occurrences == 4

\* daysOfWeek.find(d => d > currentDay) || daysOfWeek[0] + 7
NextDay(daysOfWeek, currentDay) ==
    LET i == FindIndex(daysOfWeek, LAMBDA d : d > currentDay)
    IN  IF i # 0 THEN daysOfWeek[i] ELSE daysOfWeek[1] + 7

\* The loop body with the weekly step counted in days instead of weeks.
AdvanceWeekInDays(recurrence, currentDate) ==
    LET interval == IntOr(recurrence.interval, 1)
    IN  IF recurrence.type = "daily"
        THEN currentDate + interval
        ELSE IF Len(recurrence.daysOfWeek) > 0
             THEN LET currentDay == GetDay(currentDate)
                      nextDay    == NextDay(recurrence.daysOfWeek, currentDay)
                      daysToAdd  == nextDay - currentDay
                                    + (IF nextDay <= currentDay THEN 7 ELSE 0)
                  IN  currentDate + daysToAdd
             ELSE currentDate + interval

\* One pass of the loop body: the date after currentDate under the
\* recurrence of the request body (not the stored one).
Advance(recurrence, currentDate) ==
    LET interval == IntOr(recurrence.interval, 1)
    IN  IF recurrence.type = "daily"
        THEN currentDate + interval
        ELSE IF Len(recurrence.daysOfWeek) > 0
             THEN LET currentDay == GetDay(currentDate)
                      nextDay    == NextDay(recurrence.daysOfWeek, currentDay)
                      daysToAdd  == nextDay - currentDay
                                    + (IF nextDay <= currentDay THEN 7 ELSE 0)
                  IN  currentDate + daysToAdd
             ELSE currentDate + 7 * interval

\* currentDate after i passes of the loop, starting from the base due date.
RECURSIVE DateAfter(_, _, _)
DateAfter(recurrence, dueDate, i) ==
    IF i = 0 THEN dueDate
    ELSE Advance(recurrence, DateAfter(recurrence, dueDate, i - 1))

\* The occurrence pushed by pass i of the loop (i = 1 .. Occurrences-1).
Occurrence(newHomework, recurrence, i, id) ==
    [ newHomework EXCEPT
        !.id = id,
        !.dueDate = DateAfter(recurrence, newHomework.dueDate, i),
        !.parentId = newHomework.id,
        !.nextOccurrence = 0 ]

\* The test with every type taken for a repeating one.
ExpandsAlways(recurrence) == TRUE

\* The test of line 708: the types whose occurrences are generated.
Expands(recurrence) ==
    recurrence.type = "daily" \/ recurrence.type = "weekly"

\* The loop run with i <= occurrences: one occurrence too many.
ExpandOneMore(newHomework, recurrence, n) ==
    IF Expands(recurrence)
    THEN <<newHomework>> \o
         [ i \in 1..Occurrences |->
             Occurrence(newHomework, recurrence, i, n + i) ]
    ELSE <<newHomework>>

\* createdHomeworks, before nextOccurrence is set on the first element.
\* The base draws the uuid n, occurrence i the uuid n + i.
Expand(newHomework, recurrence, n) ==
    IF Expands(recurrence)
    THEN <<newHomework>> \o
         [ i \in 1..(Occurrences - 1) |->
             Occurrence(newHomework, recurrence, i, n + i) ]
    ELSE <<newHomework>>

\* createdHomeworks with the first item left without nextOccurrence.
CreatedHomeworksUnlinked(newHomework, recurrence, n) ==
    Expand(newHomework, recurrence, n)

\* createdHomeworks as pushed to the list.
CreatedHomeworks(newHomework, recurrence, n) ==
    LET created == Expand(newHomework, recurrence, n)
    IN  IF Len(created) > 1
        THEN [created EXCEPT ![1].nextOccurrence = created[2].dueDate]
        ELSE created

\* The validation without the test of subject.
MissingRequiredButSubject(p) ==
    \/ p.title = "" \/ p.title = Null
    \/ p.dueDate = 0

\* !title || !subject || !dueDate
MissingRequired(p) ==
    \/ p.title = "" \/ p.title = Null
    \/ p.subject = "" \/ p.subject = Null
    \/ p.dueDate = 0

Create(s, p, E) ==
    /\ request' = [op |-> "create", session |-> s, id |-> 0, ids |-> <<>>, payload |-> p]
    /\ prev' = homeworks
    /\ prevUploads' = uploads
    /\ UNCHANGED pending
    /\ IF ~requireTeacher(s)
       THEN /\ response' = Unauthorized
            /\ clock' = clock + 1
            /\ wrote' = "none"
            /\ UNCHANGED <<templates, uploads>>
            /\ UNCHANGED <<homeworks, nextId>>
       ELSE
       LET list    == loadHomeworks(homeworks, nextId, clock + 1)
           n       == nextId + FalsyCount(homeworks)
       IN  IF MissingRequired(p)
           THEN /\ response' = Reply(400, "VALIDATION_ERROR", NoData, 0)
                /\ clock' = clock + 1
                /\ wrote' = "none"
                /\ UNCHANGED <<templates, uploads>>
                /\ nextId' = n
                /\ UNCHANGED homeworks
           ELSE IF p.dueDate = BadDate
           THEN \* toISOString throws RangeError: Invalid time value
                /\ response' = Reply(500, "CREATE_ERROR", NoData, 0)
                /\ clock' = clock + 1
                /\ wrote' = "none"
                /\ UNCHANGED <<templates, uploads>>
                /\ nextId' = n + 1
                /\ UNCHANGED homeworks
           ELSE \E tc \in {clock + 1} : \E tu \in Later(tc, E) : \E r \in SaveResults(tu, E) :
                LET w       == r[1]
                    ts      == r[2]
                    new     == NewHomework(n, p, s, tc, tu)
                    created == IF p.isRecurring
                               THEN CreatedHomeworks(new, p.recurrence, n)
                               ELSE <<new>>
                IN  /\ Len(homeworks) + Len(created) <= MaxHomeworks
                    /\ clock' = ts
                    /\ wrote' = w
                    /\ UNCHANGED <<templates, uploads>>
                    /\ nextId' = n + Len(created)
                    /\ homeworks' = Written(homeworks, list \o created, ts, w)
                    /\ response' = IF w = "ok"
                                   THEN Reply(201, "", <<created[1]>>, 0)
                                   ELSE Reply(500, "CREATE_ERROR", NoData, 0)

----------------------------------------------------------------------------
(* checkHomeworkPermission *)

\* The guard without its test: every signed-in caller is let through.
MayModifyAnyone(s, homework) == TRUE

\* The guard's rule (line 368).
MayModify(s, homework) ==
    s.isAdmin \/ homework.teacherEmail = s.teacherEmail

\* Outcome of the middleware for the target id over the loaded list.
checkHomeworkPermission(s, id, list) ==
    LET i == FindIndex(list, LAMBDA h : h.id = id)
    IN  IF i = 0 THEN "NOT_FOUND"
        ELSE IF MayModify(s, list[i]) THEN "next"
        ELSE "PERMISSION_DENIED"

NotFound == Reply(404, "NOT_FOUND", NoData, 0)
PermissionDenied == Reply(403, "PERMISSION_DENIED", NoData, 0)

\* What requireTeacher and checkHomeworkPermission answer when the request
\* does not reach its handler.
Refusal(s, id, list) ==
    IF ~requireTeacher(s) THEN Unauthorized
    ELSE IF checkHomeworkPermission(s, id, list) = "NOT_FOUND" THEN NotFound
    ELSE PermissionDenied

Admitted(s, id, list) ==
    requireTeacher(s) /\ checkHomeworkPermission(s, id, list) = "next"

----------------------------------------------------------------------------
(* PUT /api/homework/:id *)

Fields ==
    { "id", "title", "subject", "description", "dueDate", "createdAt",
      "updatedAt", "completed", "priority", "tags", "attachments",
      "teacherEmail", "teacherName", "yearGroup", "className", "isRecurring",
      "recurrence", "nextOccurrence", "parentId", "comments" }

\* { ...hw, ...body }: the fields of body override those of hw.
Spread(hw, body) ==
    LET Pick(f) == IF f \in DOMAIN body THEN body[f] ELSE hw[f]
    IN  [ id             |-> Pick("id"),
          title          |-> Pick("title"),
          subject        |-> Pick("subject"),
          description    |-> Pick("description"),
          dueDate        |-> Pick("dueDate"),
          createdAt      |-> Pick("createdAt"),
          updatedAt      |-> Pick("updatedAt"),
          completed      |-> Pick("completed"),
          priority       |-> Pick("priority"),
          tags           |-> Pick("tags"),
          attachments    |-> Pick("attachments"),
          teacherEmail   |-> Pick("teacherEmail"),
          teacherName    |-> Pick("teacherName"),
          yearGroup      |-> Pick("yearGroup"),
          className      |-> Pick("className"),
          isRecurring    |-> Pick("isRecurring"),
          recurrence     |-> Pick("recurrence"),
          nextOccurrence |-> Pick("nextOccurrence"),
          parentId       |-> Pick("parentId"),
          comments       |-> Pick("comments") ]

\* The merge without the line that restores the id.
UpdateMergeBodyId(hw, body, id, t) ==
    [ Spread(hw, body) EXCEPT !.updatedAt = t ]

\* updatedHomework of the PUT handler.
UpdateMerge(hw, body, id, t) ==
    [ Spread(hw, body) EXCEPT !.id = id, !.updatedAt = t ]

Update(s, id, body, E) ==
    /\ request' = [op |-> "update", session |-> s, id |-> id, ids |-> <<>>, payload |-> body]
    /\ prev' = homeworks
    /\ prevUploads' = uploads
    /\ UNCHANGED pending
    /\ LET t    == clock + 1
           list == loadHomeworks(homeworks, nextId, t)
           n    == nextId + FalsyCount(homeworks)
           i    == FindIndex(list, LAMBDA h : h.id = id)
       IN  IF ~Admitted(s, id, list)
           THEN /\ response' = Refusal(s, id, list)
                /\ clock' = t
                /\ wrote' = "none"
                /\ UNCHANGED <<templates, uploads>>
                /\ nextId' = IF requireTeacher(s) THEN n ELSE nextId
                /\ UNCHANGED homeworks
           ELSE LET updated == UpdateMerge(list[i], body, id, t)
                IN  \E r \in SaveResults(t, E) :
                    LET w == r[1]  ts == r[2] IN
                    /\ clock' = ts
                    /\ wrote' = w
                    /\ UNCHANGED <<templates, uploads>>
                    /\ nextId' = n
                    /\ homeworks' = Written(homeworks, [list EXCEPT ![i] = updated], ts, w)
                    /\ response' = IF w = "ok"
                                   THEN Reply(200, "", <<updated>>, 0)
                                   ELSE Reply(500, "UPDATE_ERROR", NoData, 0)

----------------------------------------------------------------------------
(* DELETE /api/homework/:id *)

\* The list the DELETE handler saves.
DeleteFilter(list, id) ==
    LET i == FindIndex(list, LAMBDA h : h.id = id)
        homeworkToDelete == list[i]
    IN  IF homeworkToDelete.isRecurring
        THEN SelectSeq(list, LAMBDA h :
                 h.id # id /\ h.parentId # homeworkToDelete.parentId)
        ELSE SelectSeq(list, LAMBDA h : h.id # id)

Delete(s, id, E) ==
    /\ request' = [op |-> "delete", session |-> s, id |-> id, ids |-> <<>>, payload |-> NoPayload]
    /\ prev' = homeworks
    /\ prevUploads' = uploads
    /\ UNCHANGED pending
    /\ LET t    == clock + 1
           list == loadHomeworks(homeworks, nextId, t)
           n    == nextId + FalsyCount(homeworks)
       IN  IF ~Admitted(s, id, list)
           THEN /\ response' = Refusal(s, id, list)
                /\ clock' = t
                /\ wrote' = "none"
                /\ UNCHANGED <<templates, uploads>>
                /\ nextId' = IF requireTeacher(s) THEN n ELSE nextId
                /\ UNCHANGED homeworks
           ELSE \E r \in SaveResults(t, E) :
                LET w == r[1]  ts == r[2] IN
                /\ clock' = ts
                /\ wrote' = w
                /\ UNCHANGED <<templates, uploads>>
                /\ nextId' = n
                /\ homeworks' = Written(homeworks, DeleteFilter(list, id), ts, w)
                /\ response' = IF w = "ok"
                               THEN Reply(200, "", NoData, 0)
                               ELSE Reply(500, "DELETE_ERROR", NoData, 0)

----------------------------------------------------------------------------
(* POST /api/homework/:id/complete *)

\* The merge with the flag set instead of negated.
ToggleMergeSet(hw, t) ==
    [ hw EXCEPT !.completed = TRUE, !.updatedAt = t ]

ToggleMerge(hw, t) ==
    [ hw EXCEPT !.completed = ~hw.completed, !.updatedAt = t ]

ToggleComplete(s, id, E) ==
    /\ request' = [op |-> "complete", session |-> s, id |-> id, ids |-> <<>>, payload |-> NoPayload]
    /\ prev' = homeworks
    /\ prevUploads' = uploads
    /\ UNCHANGED pending
    /\ LET t    == clock + 1
           list == loadHomeworks(homeworks, nextId, t)
           n    == nextId + FalsyCount(homeworks)
           i    == FindIndex(list, LAMBDA h : h.id = id)
       IN  IF ~Admitted(s, id, list)
           THEN /\ response' = Refusal(s, id, list)
                /\ clock' = t
                /\ wrote' = "none"
                /\ UNCHANGED <<templates, uploads>>
                /\ nextId' = IF requireTeacher(s) THEN n ELSE nextId
                /\ UNCHANGED homeworks
           ELSE LET updated == ToggleMerge(list[i], t)
                IN  \E r \in SaveResults(t, E) :
                    LET w == r[1]  ts == r[2] IN
                    /\ clock' = ts
                    /\ wrote' = w
                    /\ UNCHANGED <<templates, uploads>>
                    /\ nextId' = n
                    /\ homeworks' = Written(homeworks, [list EXCEPT ![i] = updated], ts, w)
                    /\ response' = IF w = "ok"
                                   THEN Reply(200, "", <<updated>>, 0)
                                   ELSE Reply(500, "UPDATE_ERROR", NoData, 0)

----------------------------------------------------------------------------
(* POST /api/homework/bulk-delete *)

\* The bulk-delete filter without the ownership test.
BulkDeleteFilterAnyOwner(list, ids, s) ==
    SelectSeq(list, LAMBDA hw : ~Includes(ids, hw.id))

\* The filter of the bulk-delete handler: the records that stay.
BulkDeleteFilter(list, ids, s) ==
    SelectSeq(list, LAMBDA hw :
        ~Includes(ids, hw.id) \/ hw.teacherEmail # s.teacherEmail)

BulkDelete(s, ids, E) ==
    /\ request' = [op |-> "bulk-delete", session |-> s, id |-> 0, ids |-> ids, payload |-> NoPayload]
    /\ prev' = homeworks
    /\ prevUploads' = uploads
    /\ UNCHANGED pending
    /\ LET t    == clock + 1
           list == loadHomeworks(homeworks, nextId, t)
           n    == nextId + FalsyCount(homeworks)
           kept == BulkDeleteFilter(list, ids, s)
           deletedCount == Len(list) - Len(kept)
       IN  IF ~requireTeacher(s)
           THEN /\ response' = Unauthorized
                /\ clock' = t
                /\ wrote' = "none"
                /\ UNCHANGED <<templates, uploads>>
                /\ UNCHANGED <<homeworks, nextId>>
           ELSE IF Len(ids) = 0
           THEN /\ response' = Reply(400, "VALIDATION_ERROR", NoData, 0)
                /\ clock' = t
                /\ wrote' = "none"
                /\ UNCHANGED <<templates, uploads>>
                /\ UNCHANGED <<homeworks, nextId>>
           ELSE \E r \in SaveResults(t, E) :
                LET w == r[1]  ts == r[2] IN
                /\ clock' = ts
                /\ wrote' = w
                /\ UNCHANGED <<templates, uploads>>
                /\ nextId' = n
                /\ homeworks' = Written(homeworks, kept, ts, w)
                /\ response' = IF w = "ok"
                               THEN Reply(200, "", NoData, deletedCount)
                               ELSE Reply(500, "BULK_DELETE_ERROR", NoData, 0)

----------------------------------------------------------------------------
(* POST /api/homework/bulk-update *)

\* The test of the map callback with the guard's rule in the place of
\* its own.
BulkSelectedByGuard(hw, ids, s) ==
    Includes(ids, hw.id) /\ MayModify(s, hw)

\* The test of the map callback (line 978).
BulkSelected(hw, ids, s) ==
    Includes(ids, hw.id) /\ hw.teacherEmail = s.teacherEmail

\* The record the map callback returns for a selected record.
BulkMerge(hw, updates, t) ==
    [ Spread(hw, updates) EXCEPT !.updatedAt = t ]

BulkUpdateMap(list, ids, updates, s, t) ==
    [ i \in 1..Len(list) |->
        IF BulkSelected(list[i], ids, s)
        THEN BulkMerge(list[i], updates, t)
        ELSE list[i] ]

BulkUpdate(s, ids, updates, E) ==
    /\ request' = [op |-> "bulk-update", session |-> s, id |-> 0, ids |-> ids, payload |-> updates]
    /\ prev' = homeworks
    /\ prevUploads' = uploads
    /\ UNCHANGED pending
    /\ LET t    == clock + 1
           list == loadHomeworks(homeworks, nextId, t)
           n    == nextId + FalsyCount(homeworks)
           updatedCount == Cardinality({ i \in 1..Len(list) : BulkSelected(list[i], ids, s) })
       IN  IF ~requireTeacher(s)
           THEN /\ response' = Unauthorized
                /\ clock' = t
                /\ wrote' = "none"
                /\ UNCHANGED <<templates, uploads>>
                /\ UNCHANGED <<homeworks, nextId>>
           ELSE IF Len(ids) = 0
           THEN /\ response' = Reply(400, "VALIDATION_ERROR", NoData, 0)
                /\ clock' = t
                /\ wrote' = "none"
                /\ UNCHANGED <<templates, uploads>>
                /\ UNCHANGED <<homeworks, nextId>>
           ELSE IF updatedCount = 0
           THEN /\ response' = NotFound
                /\ clock' = t
                /\ wrote' = "none"
                /\ UNCHANGED <<templates, uploads>>
                /\ nextId' = n
                /\ UNCHANGED homeworks
           ELSE \E r \in SaveResults(t, E) :
                LET w == r[1]  ts == r[2] IN
                /\ clock' = ts
                /\ wrote' = w
                /\ UNCHANGED <<templates, uploads>>
                /\ nextId' = n
                /\ homeworks' = Written(homeworks,
                                        BulkUpdateMap(list, ids, updates, s, t), ts, w)
                /\ response' = IF w = "ok"
                               THEN Reply(200, "", NoData, updatedCount)
                               ELSE Reply(500, "BULK_UPDATE_ERROR", NoData, 0)

----------------------------------------------------------------------------
(* POST /api/homework/:id/comments *)

\* req.body.content.  A JSON value is a string (a sequence of characters),
\* a number, or absent; type tells which, and the field of the other type
\* is left empty.
Str(chars) == [type |-> "string", chars |-> chars, num |-> 0]
Num(n) == [type |-> "number", chars |-> <<>>, num |-> n]
Undefined == [type |-> "undefined", chars |-> <<>>, num |-> 0]

\* !content
Falsy(content) ==
    \/ content.type = "undefined"
    \/ content.type = "string" /\ content.chars = <<>>
    \/ content.type = "number" /\ content.num = 0

WhiteSpace == {" ", "\t", "\n"}

RECURSIVE TrimStart(_)
TrimStart(chars) ==
    IF chars # <<>> /\ Head(chars) \in WhiteSpace
    THEN TrimStart(Tail(chars))
    ELSE chars

RECURSIVE TrimEnd(_)
TrimEnd(chars) ==
    IF chars # <<>> /\ chars[Len(chars)] \in WhiteSpace
    THEN TrimEnd(SubSeq(chars, 1, Len(chars) - 1))
    ELSE chars

\* String.prototype.trim
Trim(chars) == TrimEnd(TrimStart(chars))

\* The validation that lets every string through, blank or not.
InvalidContentUntrimmed(content) ==
    \/ Falsy(content)
    \/ content.type # "string"

\* !content || typeof content !== 'string' || content.trim() === ''
InvalidContent(content) ==
    \/ Falsy(content)
    \/ content.type # "string"
    \/ Trim(content.chars) = <<>>

\* The object literal newComment.
NewComment(id, content, s, tc, tu) ==
    [ id         |-> id,
      content    |-> Trim(content.chars),
      author     |-> s.teacherEmail,
      authorName |-> s.teacherName,
      createdAt  |-> tc,
      updatedAt  |-> tu ]

AddComment(s, id, content, E) ==
    /\ request' = [op |-> "comment", session |-> s, id |-> id, ids |-> <<>>,
                   payload |-> [content |-> content]]
    /\ prev' = homeworks
    /\ prevUploads' = uploads
    /\ UNCHANGED pending
    /\ IF ~requireTeacher(s)
       THEN /\ response' = Unauthorized
            /\ clock' = clock + 1
            /\ wrote' = "none"
            /\ UNCHANGED <<templates, uploads>>
            /\ UNCHANGED <<homeworks, nextId>>
       ELSE IF InvalidContent(content)
       THEN /\ response' = Reply(400, "VALIDATION_ERROR", NoData, 0)
            /\ clock' = clock + 1
            /\ wrote' = "none"
            /\ UNCHANGED <<templates, uploads>>
            /\ UNCHANGED <<homeworks, nextId>>
       ELSE
       LET list  == loadHomeworks(homeworks, nextId, clock + 1)
           n     == nextId + FalsyCount(homeworks)
           index == FindIndex(list, LAMBDA h : h.id = id)
       IN  IF index = 0
           THEN /\ response' = NotFound
                /\ clock' = clock + 1
                /\ wrote' = "none"
                /\ UNCHANGED <<templates, uploads>>
                /\ nextId' = n
                /\ UNCHANGED homeworks
           ELSE \E tc \in {clock + 1} : \E tu \in Later(tc, E) : \E r \in SaveResults(tu, E) :
                LET w          == r[1]
                    ts         == r[2]
                    newComment == NewComment(n, content, s, tc, tu)
                    commented  == [ list[index] EXCEPT
                                      !.comments = Append(@, newComment),
                                      !.updatedAt = tu ]
                IN  /\ clock' = ts
                    /\ wrote' = w
                    /\ UNCHANGED <<templates, uploads>>
                    /\ nextId' = n + 1
                    /\ homeworks' = Written(homeworks, [list EXCEPT ![index] = commented], ts, w)
                    /\ response' = IF w = "ok"
                                   THEN Reply(201, "", <<newComment>>, 0)
                                   ELSE Reply(500, "CREATE_ERROR", NoData, 0)

----------------------------------------------------------------------------
(* GET /api/homework (the handler with filters, sort and pagination) *)

\* String.prototype.toLowerCase over the texts that occur.
Lower(s) ==
    CASE s = "Math"      -> "math"
      [] s = "MATH"      -> "math"
      [] s = "Art"       -> "art"
      [] s = "Essay"     -> "essay"
      [] s = "Quiz"      -> "quiz"
      [] s = "Untitled"  -> "untitled"
      [] s = "Chapter 1" -> "chapter 1"
      [] s = "HIGH"      -> "high"
      [] s = "A@School"  -> "a@school"
      [] OTHER           -> s

\* String.prototype.includes over the lower-case texts that occur: the
\* pairs <<part, text>> with part a proper substring of text.
ProperSubstrings ==
    { <<"ess", "essay">>, <<"a", "essay">>, <<"a", "math">>, <<"a", "art">>,
      <<"a", "chapter 1">>, <<"ter", "chapter 1">> }

StrIncludes(text, part) ==
    part = "" \/ part = text \/ <<part, text>> \in ProperSubstrings

\* The query string: a text filter left out is "", tag is the list of the
\* tag values given, from and to are day numbers (0 when left out), limit
\* and page are the numbers their texts convert to.
MatchesSearch(hw, q) ==
    LET searchLower == Lower(q.search)
    IN  \/ hw.title # "" /\ StrIncludes(Lower(hw.title), searchLower)
        \/ hw.description # "" /\ StrIncludes(Lower(hw.description), searchLower)
        \/ hw.subject # "" /\ StrIncludes(Lower(hw.subject), searchLower)

MatchesSubject(hw, q) ==
    hw.subject # "" /\ Lower(hw.subject) = Lower(q.subject)

\* The status filter that keeps every record.
MatchesStatusAlways(hw, q) == TRUE

MatchesStatus(hw, q) ==
    LET isCompleted == (Lower(q.status) = "completed")
    IN  hw.completed = isCompleted

MatchesPriority(hw, q) ==
    hw.priority # "" /\ Lower(hw.priority) = Lower(q.priority)

MatchesTag(hw, q) ==
    \E k \in 1..Len(q.tag) : Includes(hw.tags, q.tag[k])

\* new Date(hw.dueDate) >= new Date(from)
MatchesFrom(hw, q) == hw.dueDate # 0 /\ hw.dueDate >= q.from

\* toDate is the last millisecond of the day `to`; due dates are days.
MatchesTo(hw, q) == hw.dueDate # 0 /\ hw.dueDate <= q.to

\* hw.yearGroup.toString() === yearGroup.toString()
MatchesYearGroup(hw, q) == hw.yearGroup # "" /\ hw.yearGroup = q.yearGroup

MatchesTeacherEmail(hw, q) ==
    hw.teacherEmail # "" /\ Lower(hw.teacherEmail) = Lower(q.teacherEmail)

\* The chain of `if (filter) homeworks = homeworks.filter(...)`.
ApplyFilters(list, q) ==
    SelectSeq(list, LAMBDA hw :
        /\ q.search = ""       \/ MatchesSearch(hw, q)
        /\ q.subject = ""      \/ MatchesSubject(hw, q)
        /\ q.status = ""       \/ MatchesStatus(hw, q)
        /\ q.priority = ""     \/ MatchesPriority(hw, q)
        /\ q.tag = <<>>        \/ MatchesTag(hw, q)
        /\ q.from = 0          \/ MatchesFrom(hw, q)
        /\ q.to = 0            \/ MatchesTo(hw, q)
        /\ q.yearGroup = ""    \/ MatchesYearGroup(hw, q)
        /\ q.teacherEmail = "" \/ MatchesTeacherEmail(hw, q))

\* sorted with hw put after the last element that is not due later:
\* Array.prototype.sort is stable, and the comparator is the difference of
\* the two due dates (every stored due date parses).
RECURSIVE InsertByDueDate(_, _)
InsertByDueDate(sorted, hw) ==
    IF sorted = <<>> THEN <<hw>>
    ELSE IF sorted[Len(sorted)].dueDate - hw.dueDate <= 0
         THEN Append(sorted, hw)
         ELSE Append(InsertByDueDate(SubSeq(sorted, 1, Len(sorted) - 1), hw),
                     sorted[Len(sorted)])

\* homeworks.sort((a, b) => new Date(a.dueDate) - new Date(b.dueDate))
RECURSIVE SortByDueDate(_)
SortByDueDate(list) ==
    IF list = <<>> THEN <<>>
    ELSE InsertByDueDate(SortByDueDate(SubSeq(list, 1, Len(list) - 1)),
                         list[Len(list)])

\* Array.prototype.slice(start, end) for integers: a negative index counts
\* from the end, and both are clamped to the length.
Slice(list, start, end) ==
    LET Clamp(k) == IF k < 0
                    THEN (IF Len(list) + k < 0 THEN 0 ELSE Len(list) + k)
                    ELSE (IF k > Len(list) THEN Len(list) ELSE k)
    IN  SubSeq(list, Clamp(start) + 1, Clamp(end))

\* The page whose first index is one too far.
PaginateShifted(list, page, limit) ==
    Slice(list, (page - 1) * limit + 1, page * limit)

\* paginatedHomeworks
Paginate(list, page, limit) ==
    Slice(list, (page - 1) * limit, page * limit)

\* Math.ceil(total / limit) for limit >= 1
TotalPages(total, limit) == (total + limit - 1) \div limit

\* The pagination object of the response.
Pagination(total, page, limit) ==
    [ total       |-> total,
      page        |-> page,
      totalPages  |-> TotalPages(total, limit),
      hasNext     |-> page * limit < total,
      hasPrevious |-> (page - 1) * limit > 0 ]

\* The filtered list left in stored order.
QueryMatchesUnsorted(list, q) == ApplyFilters(list, q)

\* The filtered list after the sort.
QueryMatches(list, q) == SortByDueDate(ApplyFilters(list, q))

Query(q) ==
    /\ request' = [op |-> "query", session |-> NoSession, id |-> 0, ids |-> <<>>,
                   payload |-> q]
    /\ prev' = homeworks
    /\ prevUploads' = uploads
    /\ UNCHANGED pending
    /\ LET list    == loadHomeworks(homeworks, nextId, clock + 1)
           matches == QueryMatches(list, q)
       IN  /\ response' = [ status     |-> 200,
                            code       |-> "",
                            data       |-> Paginate(matches, q.page, q.limit),
                            count      |-> 0,
                            pagination |-> Pagination(Len(matches), q.page, q.limit) ]
           /\ clock' = clock + 1
           /\ wrote' = "none"
           /\ UNCHANGED <<templates, uploads>>
           /\ nextId' = nextId + FalsyCount(homeworks)
           /\ UNCHANGED homeworks

----------------------------------------------------------------------------
(* GET /api/homework: the two registrations *)

\* The handlers app.get('/api/homework', ...) registers, in the order of
\* the registrations: the one that answers the whole list, then the one
\* with filters, sort and pagination.
GetHomeworkHandlers == <<"all", "filtered">>

\* The router calls the handlers of the matching routes in registration
\* order, each one only when the one before called next(); neither of the
\* two handlers does, so the first one answers.
Dispatched(handlers) == handlers[1]

\* res.json(loadHomeworks()): the bare list.
ListAll(q) ==
    /\ request' = [op |-> "get", session |-> NoSession, id |-> 0, ids |-> <<>>,
                   payload |-> q]
    /\ prev' = homeworks
    /\ prevUploads' = uploads
    /\ UNCHANGED pending
    /\ response' = Reply(200, "", loadHomeworks(homeworks, nextId, clock + 1), 0)
    /\ clock' = clock + 1
    /\ wrote' = "none"
    /\ nextId' = nextId + FalsyCount(homeworks)
    /\ UNCHANGED <<homeworks, templates, uploads>>

\* A GET /api/homework request with the query string q, as the router
\* serves it.
GetHomework(q) ==
    IF Dispatched(GetHomeworkHandlers) = "all" THEN ListAll(q) ELSE Query(q)

----------------------------------------------------------------------------
(* GET /api/stats *)

\* The statistics taken over the records of every teacher.
TeacherHomeworksOfAll(list, s) == list

\* homeworks.filter(hw => hw.teacherEmail === teacherEmail)
TeacherHomeworks(list, s) ==
    SelectSeq(list, LAMBDA hw : hw.teacherEmail = s.teacherEmail)

\* list.filter(Test).length
CountOf(list, Test(_)) == Cardinality({ i \in 1..Len(list) : Test(list[i]) })

\* Math.round(x) of x = num / den >= 0: the nearest integer, halves up.
\* The quotients of the handler are computed in floating point; for the
\* totals up to MaxHomeworks none of them is within rounding error of a half.
Round(num, den) == (2 * num + den) \div (2 * den)

\* total > 0 ? Math.round((completed / total) * 100) : 0
CompletionRate(completed, total) ==
    IF total > 0 THEN Round(100 * completed, total) ELSE 0

\* bySubject: the number of records per subject, under 'Uncategorized' for
\* a record without subject.
BySubject(list) ==
    LET Key(hw) == StrOr(hw.subject, "Uncategorized")
    IN  [ k \in { Key(list[i]) : i \in 1..Len(list) } |->
            CountOf(list, LAMBDA hw : Key(hw) = k) ]

ByPriority(list) ==
    [ high   |-> CountOf(list, LAMBDA hw : hw.priority = "high"),
      medium |-> CountOf(list, LAMBDA hw : hw.priority = "medium"),
      low    |-> CountOf(list, LAMBDA hw : hw.priority = "low") ]

\* byDueDate.  today is the day of `now`, which is past its midnight, so a
\* record due today (at midnight) is overdue; oneWeekFromNow is the same
\* time of day seven days later.
ByDueDate(list, today) ==
    [ overdue  |-> CountOf(list, LAMBDA hw : ~hw.completed /\ hw.dueDate <= today),
      thisWeek |-> CountOf(list, LAMBDA hw :
                      ~hw.completed /\ hw.dueDate > today /\ hw.dueDate <= today + 7),
      later    |-> CountOf(list, LAMBDA hw : ~hw.completed /\ hw.dueDate > today + 7) ]

\* The data object of the response.
StatsData(teacherHomeworks, today) ==
    LET total     == Len(teacherHomeworks)
        completed == CountOf(teacherHomeworks, LAMBDA hw : hw.completed)
    IN  [ total          |-> total,
          completed      |-> completed,
          pending        |-> total - completed,
          completionRate |-> CompletionRate(completed, total),
          bySubject      |-> BySubject(teacherHomeworks),
          byPriority     |-> ByPriority(teacherHomeworks),
          byDueDate      |-> ByDueDate(teacherHomeworks, today) ]

Stats(s, today) ==
    /\ request' = [op |-> "stats", session |-> s, id |-> 0, ids |-> <<>>,
                   payload |-> [today |-> today]]
    /\ prev' = homeworks
    /\ prevUploads' = uploads
    /\ UNCHANGED pending
    /\ clock' = clock + 1
    /\ wrote' = "none"
    /\ UNCHANGED <<templates, uploads>>
    /\ UNCHANGED homeworks
    /\ IF ~requireTeacher(s)
       THEN /\ response' = Unauthorized
            /\ UNCHANGED nextId
       ELSE LET list == loadHomeworks(homeworks, nextId, clock + 1)
            IN  /\ response' = Reply(200, "", <<StatsData(TeacherHomeworks(list, s), today)>>, 0)
                /\ nextId' = nextId + FalsyCount(homeworks)

----------------------------------------------------------------------------
(* File uploads (multer) and the uploads directory *)

\* req.file when the request carries no file part.
NoFile == [originalname |-> "", mimeType |-> "", kind |-> "none", items |-> <<>>]

\* The mime types the fileFilter lets through.
AllowedTypes ==
    { "application/pdf", "application/msword",
      "application/vnd.openxmlformats-officedocument.wordprocessingml.document",
      "image/jpeg", "image/png", "text/plain" }

\* The name diskStorage gives the stored file: the reading of Date.now()
\* and the original name (the random part is left out, the readings of two
\* requests being different).
StoredName(t, file) == [stamp |-> t, originalname |-> file.originalname]

\* fs.unlinkSync that removes nothing.
unlinkSyncNothing(dir, name) == dir

\* fs.unlinkSync(path) on the uploads directory.
unlinkSync(dir, name) == dir \ {name}

----------------------------------------------------------------------------
(* POST /api/homework/:id/attachments *)

\* The object literal attachment.
NewAttachment(id, file, name, s, t) ==
    [ id         |-> id,
      filename   |-> file.originalname,
      path       |-> name,
      mimeType   |-> file.mimeType,
      size       |-> 1,
      uploadedBy |-> s.teacherEmail,
      uploadedAt |-> t ]

AddAttachment(s, id, file, E) ==
    /\ request' = [op |-> "attach", session |-> s, id |-> id, ids |-> <<>>, payload |-> file]
    /\ prev' = homeworks
    /\ prevUploads' = uploads
    /\ UNCHANGED pending
    /\ UNCHANGED templates
    /\ IF ~requireTeacher(s)
       THEN /\ response' = Unauthorized
            /\ clock' = clock + 1
            /\ wrote' = "none"
            /\ UNCHANGED <<homeworks, nextId, uploads>>
       ELSE IF file = NoFile
       THEN /\ response' = Reply(400, "NO_FILE", NoData, 0)
            /\ clock' = clock + 1
            /\ wrote' = "none"
            /\ UNCHANGED <<homeworks, nextId, uploads>>
       ELSE IF file.mimeType \notin AllowedTypes
       THEN \* the fileFilter's error goes to errorHandler; nothing is stored
            /\ response' = Reply(500, "INTERNAL_ERROR", NoData, 0)
            /\ clock' = clock + 1
            /\ wrote' = "none"
            /\ UNCHANGED <<homeworks, nextId, uploads>>
       ELSE
       LET tm     == clock + 1
           name   == StoredName(tm, file)
           stored == uploads \cup {name}
           list   == loadHomeworks(homeworks, nextId, tm)
           n      == nextId + FalsyCount(homeworks)
           index  == FindIndex(list, LAMBDA h : h.id = id)
       IN  IF index = 0
           THEN /\ response' = Reply(404, "NOT_FOUND", NoData, 0)
                /\ clock' = tm
                /\ wrote' = "none"
                /\ nextId' = n
                /\ uploads' = unlinkSync(stored, name)
                /\ UNCHANGED homeworks
           ELSE \E ta \in Later(tm, E) : \E tu \in Later(ta, E) : \E r \in SaveResults(tu, E) :
                LET w          == r[1]
                    ts         == r[2]
                    attachment == NewAttachment(n, file, name, s, ta)
                    attached   == [ list[index] EXCEPT
                                      !.attachments = Append(@, attachment),
                                      !.updatedAt = tu ]
                IN  /\ clock' = ts
                    /\ wrote' = w
                    /\ nextId' = n + 1
                    /\ homeworks' = Written(homeworks, [list EXCEPT ![index] = attached], ts, w)
                    /\ uploads' = IF w = "ok" THEN stored ELSE unlinkSync(stored, name)
                    /\ response' = IF w = "ok"
                                   THEN Reply(201, "", <<attachment>>, 0)
                                   ELSE Reply(500, "UPLOAD_ERROR", NoData, 0)

----------------------------------------------------------------------------
(* DELETE /api/homework/:homeworkId/attachments/:attachmentId *)

\* A splice that removes the entry and every entry after it.
SpliceFrom(s, i) == SubSeq(s, 1, i - 1)

\* attachments.splice(attachmentIndex, 1)
Splice(s, i) == SubSeq(s, 1, i - 1) \o SubSeq(s, i + 1, Len(s))

\* loadHomeworks makes attachments an array on every record, so the test of
\* line 1217 never answers.
RemoveAttachment(s, id, attachmentId, E) ==
    /\ request' = [op |-> "detach", session |-> s, id |-> id, ids |-> <<>>,
                   payload |-> [attachmentId |-> attachmentId]]
    /\ prev' = homeworks
    /\ prevUploads' = uploads
    /\ UNCHANGED pending
    /\ UNCHANGED templates
    /\ IF ~requireTeacher(s)
       THEN /\ response' = Unauthorized
            /\ clock' = clock + 1
            /\ wrote' = "none"
            /\ UNCHANGED <<homeworks, nextId, uploads>>
       ELSE
       LET t     == clock + 1
           list  == loadHomeworks(homeworks, nextId, t)
           n     == nextId + FalsyCount(homeworks)
           index == FindIndex(list, LAMBDA h : h.id = id)
       IN  IF index = 0
           THEN /\ response' = Reply(404, "NOT_FOUND", NoData, 0)
                /\ clock' = t
                /\ wrote' = "none"
                /\ nextId' = n
                /\ UNCHANGED <<homeworks, uploads>>
           ELSE
           LET attachmentIndex ==
                   FindIndex(list[index].attachments, LAMBDA a : a.id = attachmentId)
           IN  IF attachmentIndex = 0
               THEN /\ response' = Reply(404, "NOT_FOUND", NoData, 0)
                    /\ clock' = t
                    /\ wrote' = "none"
                    /\ nextId' = n
                    /\ UNCHANGED <<homeworks, uploads>>
               ELSE \E r \in SaveResults(t, E) :
                    LET w        == r[1]
                        ts       == r[2]
                        filePath == list[index].attachments[attachmentIndex].path
                        detached == [ list[index] EXCEPT
                                        !.attachments = Splice(@, attachmentIndex),
                                        !.updatedAt = t ]
                    IN  /\ clock' = ts
                        /\ wrote' = w
                        /\ nextId' = n
                        /\ homeworks' = Written(homeworks, [list EXCEPT ![index] = detached], ts, w)
                        /\ uploads' = IF w = "ok" THEN unlinkSync(uploads, filePath) ELSE uploads
                        /\ response' = IF w = "ok"
                                       THEN Reply(200, "", NoData, 0)
                                       ELSE Reply(500, "DELETE_ERROR", NoData, 0)

----------------------------------------------------------------------------
(* POST /api/import *)

\* The object literal newHomework of the import loop.
ImportedHomework(id, hw, s, tc, tu) ==
    [ id             |-> id,
      title          |-> hw.title,
      subject        |-> hw.subject,
      description    |-> StrOr(hw.description, ""),
      dueDate        |-> hw.dueDate,
      createdAt      |-> tc,
      updatedAt      |-> tu,
      completed      |-> hw.completed,
      priority       |-> StrOr(hw.priority, "medium"),
      tags           |-> hw.tags,
      attachments    |-> <<>>,
      teacherEmail   |-> s.teacherEmail,
      teacherName    |-> s.teacherName,
      yearGroup      |-> StrOr(hw.yearGroup, Null),
      className      |-> StrOr(hw.className, Null),
      isRecurring    |-> hw.isRecurring,
      recurrence     |-> hw.recurrence,
      nextOccurrence |-> hw.nextOccurrence,
      parentId       |-> 0,
      comments       |-> <<>> ]

\* The test of line 1484.
Skipped(hw) ==
    \/ hw.title = "" \/ hw.title = Null
    \/ hw.subject = "" \/ hw.subject = Null
    \/ hw.dueDate = 0

\* The items the loop turns into records.
Accepted(items) == SelectSeq(items, LAMBDA hw : ~Skipped(hw))

\* The records the loop pushes; the k-th takes the k-th uuid.  The clock is
\* read twice per item; the items of one file are few and are stamped with
\* the same two readings.
ImportedHomeworks(items, n, s, tc, tu) ==
    [ k \in 1..Len(Accepted(items)) |->
        ImportedHomework(n + k - 1, Accepted(items)[k], s, tc, tu) ]

Import(s, file, E) ==
    /\ request' = [op |-> "import", session |-> s, id |-> 0, ids |-> <<>>, payload |-> file]
    /\ prev' = homeworks
    /\ prevUploads' = uploads
    /\ UNCHANGED pending
    /\ UNCHANGED templates
    /\ IF ~requireTeacher(s)
       THEN /\ response' = Unauthorized
            /\ clock' = clock + 1
            /\ wrote' = "none"
            /\ UNCHANGED <<homeworks, nextId, uploads>>
       ELSE IF file = NoFile
       THEN /\ response' = Reply(400, "NO_FILE", NoData, 0)
            /\ clock' = clock + 1
            /\ wrote' = "none"
            /\ UNCHANGED <<homeworks, nextId, uploads>>
       ELSE IF file.mimeType \notin AllowedTypes
       THEN /\ response' = Reply(500, "INTERNAL_ERROR", NoData, 0)
            /\ clock' = clock + 1
            /\ wrote' = "none"
            /\ UNCHANGED <<homeworks, nextId, uploads>>
       ELSE
       LET tm     == clock + 1
           name   == StoredName(tm, file)
           stored == uploads \cup {name}
       IN  IF file.kind \notin {"array", "object"}
           THEN \* JSON.parse throws; the catch block removes the file
                /\ response' = Reply(500, "IMPORT_ERROR", NoData, 0)
                /\ clock' = tm
                /\ wrote' = "none"
                /\ uploads' = unlinkSync(stored, name)
                /\ UNCHANGED <<homeworks, nextId>>
           ELSE IF file.kind = "object"
           THEN /\ response' = Reply(400, "INVALID_FORMAT", NoData, 0)
                /\ clock' = tm
                /\ wrote' = "none"
                /\ uploads' = unlinkSync(stored, name)
                /\ UNCHANGED <<homeworks, nextId>>
           ELSE \E tc \in Later(tm, E) : \E tu \in Later(tc, E) : \E r \in SaveResults(tu, E) :
                LET w        == r[1]
                    ts       == r[2]
                    list     == loadHomeworks(homeworks, nextId, tm)
                    n        == nextId + FalsyCount(homeworks)
                    imported == ImportedHomeworks(file.items, n, s, tc, tu)
                IN  /\ Len(homeworks) + Len(imported) <= MaxHomeworks
                    /\ clock' = ts
                    /\ wrote' = w
                    /\ nextId' = n + Len(imported)
                    /\ homeworks' = Written(homeworks, list \o imported, ts, w)
                    /\ uploads' = unlinkSync(stored, name)
                    /\ response' = IF w = "ok"
                                   THEN Reply(200, "", NoData, Len(imported))
                                   ELSE Reply(500, "IMPORT_ERROR", NoData, 0)

----------------------------------------------------------------------------
(* Templates *)

\* loadTemplates(): the parsed file; a missing or empty file, or one that
\* does not parse, is the empty list.
loadTemplates(file) == file

\* The file after saveTemplates(list): the function catches the error of a
\* failed write and returns nothing in either case.
saveTemplates(file, list, w) ==
    CASE w = "ok"        -> list
      [] w = "intact"    -> file
      [] w = "truncated" -> <<>>

\* The object literal newTemplate.
NewTemplate(id, p, s, tc, tu) ==
    [ id          |-> id,
      title       |-> p.title,
      subject     |-> p.subject,
      description |-> StrOr(p.description, ""),
      tags        |-> p.tags,
      createdAt   |-> tc,
      createdBy   |-> s.teacherEmail,
      updatedAt   |-> tu ]

\* GET /api/templates
ListTemplates(s) ==
    /\ request' = [op |-> "template-list", session |-> s, id |-> 0, ids |-> <<>>,
                   payload |-> NoPayload]
    /\ prev' = homeworks
    /\ prevUploads' = uploads
    /\ UNCHANGED pending
    /\ clock' = clock + 1
    /\ wrote' = "none"
    /\ UNCHANGED <<homeworks, nextId, templates, uploads>>
    /\ response' = IF ~requireTeacher(s)
                   THEN Unauthorized
                   ELSE Reply(200, "", loadTemplates(templates), 0)

\* POST /api/templates
CreateTemplate(s, p, E) ==
    /\ request' = [op |-> "template-create", session |-> s, id |-> 0, ids |-> <<>>,
                   payload |-> p]
    /\ prev' = homeworks
    /\ prevUploads' = uploads
    /\ UNCHANGED pending
    /\ UNCHANGED <<homeworks, uploads>>
    /\ IF ~requireTeacher(s)
       THEN /\ response' = Unauthorized
            /\ clock' = clock + 1
            /\ wrote' = "none"
            /\ UNCHANGED <<nextId, templates>>
       ELSE IF p.title = "" \/ p.title = Null \/ p.subject = "" \/ p.subject = Null
       THEN /\ response' = Reply(400, "VALIDATION_ERROR", NoData, 0)
            /\ clock' = clock + 1
            /\ wrote' = "none"
            /\ UNCHANGED <<nextId, templates>>
       ELSE \E tc \in {clock + 1} : \E tu \in Later(tc, E) : \E w \in E.writes :
            LET list        == loadTemplates(templates)
                newTemplate == NewTemplate(nextId, p, s, tc, tu)
            IN  /\ clock' = tu
                /\ wrote' = w
                /\ nextId' = nextId + 1
                /\ templates' = saveTemplates(templates, Append(list, newTemplate), w)
                /\ response' = Reply(201, "", <<newTemplate>>, 0)

\* DELETE /api/templates/:id.  The file declares no such route (the
\* templates section has GET and POST only) and the fallback of line 1642
\* answers GET alone, so the request reaches no handler and the framework
\* answers 404.
DeleteTemplate(s, id) ==
    /\ request' = [op |-> "template-delete", session |-> s, id |-> id, ids |-> <<>>,
                   payload |-> NoPayload]
    /\ prev' = homeworks
    /\ prevUploads' = uploads
    /\ UNCHANGED pending
    /\ clock' = clock + 1
    /\ wrote' = "none"
    /\ UNCHANGED <<homeworks, nextId, templates, uploads>>
    /\ response' = Reply(404, "", NoData, 0)

----------------------------------------------------------------------------
(* A second server process on the same homework.json *)

\* Within one process a handler runs from loadHomeworks to saveHomeworks
\* without yielding (readFileSync, writeFileSync, and next() is a call), so
\* the requests of one process are the actions above.  Neither function
\* takes a lock on the file: the handler of another process can read it,
\* let requests of the first process be handled, and write afterwards.
\* Begin is that handler up to its read, Finish the rest of it.

\* The list a handler changes and saves, having read the content read when
\* the file holds the content file: the file read again before the write.
SnapshotReread(read, file) == file

\* The list a handler changes and saves: its local const homeworks, the
\* content it read.
Snapshot(read, file) == read

\* PUT /api/homework/:id or POST /api/homework/:id/comments in the second
\* process, up to and including loadHomeworks().
Begin(op, s, id, payload) ==
    /\ pending.pc # "read"
    /\ clock' = clock + 1
    /\ UNCHANGED <<homeworks, templates, uploads>>
    /\ LET list == loadHomeworks(homeworks, nextId, clock + 1)
           n    == nextId + FalsyCount(homeworks)
           refused ==
               IF op = "update"
               THEN ~Admitted(s, id, list)
               ELSE \/ ~requireTeacher(s)
                    \/ InvalidContent(payload.content)
                    \/ FindIndex(list, LAMBDA h : h.id = id) = 0
       IN  IF refused
           THEN /\ request' = [op |-> op, session |-> s, id |-> id, ids |-> <<>>,
                               payload |-> payload]
                /\ prev' = homeworks
                /\ prevUploads' = uploads
                /\ wrote' = "none"
                /\ response' = IF op = "update" THEN Refusal(s, id, list)
                               ELSE IF ~requireTeacher(s) THEN Unauthorized
                               ELSE IF InvalidContent(payload.content)
                               THEN Reply(400, "VALIDATION_ERROR", NoData, 0)
                               ELSE NotFound
                /\ nextId' = IF requireTeacher(s) THEN n ELSE nextId
                /\ UNCHANGED pending
           ELSE /\ pending' = [ pc |-> "read", op |-> op, session |-> s, id |-> id,
                                payload |-> payload, file |-> homeworks,
                                t |-> clock + 1, at |-> 0 ]
                /\ nextId' = n
                /\ UNCHANGED <<request, response, prev, prevUploads, wrote>>

\* The rest of that handler: the change to the list it read, the write and
\* the response.
Finish(E) ==
    /\ pending.pc = "read"
    /\ request' = [op |-> pending.op, session |-> pending.session, id |-> pending.id,
                   ids |-> <<>>, payload |-> pending.payload]
    /\ prev' = homeworks
    /\ prevUploads' = uploads
    /\ UNCHANGED <<templates, uploads>>
    /\ LET list  == loadHomeworks(Snapshot(pending.file, homeworks), nextId, pending.t)
           index == FindIndex(list, LAMBDA h : h.id = pending.id)
       IN  \E tc \in {clock + 1} : \E tu \in Later(tc, E) : \E r \in SaveResults(tu, E) :
           LET w          == r[1]
               ts         == r[2]
               newComment == NewComment(nextId, pending.payload.content,
                                        pending.session, tc, tu)
               changed    == IF pending.op = "update"
                             THEN UpdateMerge(list[index], pending.payload, pending.id, tc)
                             ELSE [ list[index] EXCEPT
                                      !.comments = Append(@, newComment),
                                      !.updatedAt = tu ]
           IN  /\ index # 0
               /\ clock' = ts
               /\ wrote' = w
               /\ nextId' = IF pending.op = "update" THEN nextId ELSE nextId + 1
               /\ homeworks' = Written(homeworks, [list EXCEPT ![index] = changed], ts, w)
               /\ pending' = [pending EXCEPT !.pc = "done", !.at = ts]
               /\ response' =
                    IF w # "ok"
                    THEN Reply(500, IF pending.op = "update" THEN "UPDATE_ERROR"
                                    ELSE "CREATE_ERROR", NoData, 0)
                    ELSE IF pending.op = "update"
                    THEN Reply(200, "", <<changed>>, 0)
                    ELSE Reply(201, "", <<newComment>>, 0)

----------------------------------------------------------------------------
(* Requests *)

\* A request body for POST /api/homework with every destructured field
\* given; a field left out of a body has the value its default gives it.
Single ==
    [ title |-> "Essay", subject |-> "Math", description |-> "",
      dueDate |-> 19723, priority |-> "medium", tags |-> <<>>,
      isRecurring |-> FALSE, recurrence |-> DefaultRecurrence,
      yearGroup |-> "", className |-> "" ]

Recurring(type, interval, daysOfWeek) ==
    [ Single EXCEPT
        !.isRecurring = TRUE,
        !.recurrence = [type |-> type, interval |-> interval,
                        daysOfWeek |-> daysOfWeek] ]

CreatePayloads ==
    { Single,
      [Single EXCEPT !.title = ""],
      Recurring("daily", 1, <<>>) }

\* A body that names every optional content field.
Rich ==
    [ Single EXCEPT
        !.description = "Chapter 1", !.priority = "high",
        !.tags = <<"algebra">>, !.yearGroup = "Y9", !.className = "9A" ]

RecurrenceTypes == {"none", "daily", "weekly", "monthly"}
Intervals == {0 - 1, 0, 1, 2}
DaysOfWeekLists == { <<>>, <<3, 1>>, <<9, 2>> }
DueDates == {19723, 19727}      \* 2024-01-01 (Monday), 2024-01-05 (Friday)

\* Bodies with a required field empty, null or missing, or a due date that
\* does not parse.
BadPayloads ==
    { [Single EXCEPT !.title = ""],
      [Single EXCEPT !.title = Null],
      [Rich EXCEPT !.subject = ""],
      [Rich EXCEPT !.dueDate = 0],
      [Single EXCEPT !.dueDate = BadDate] }

\* Only the weekly branch of the loop reads daysOfWeek, so the other types
\* are sent with the empty list.
RecurringPayloads ==
    { [ Rich EXCEPT
          !.dueDate = c[1],
          !.isRecurring = TRUE,
          !.recurrence = [type |-> c[2], interval |-> c[3], daysOfWeek |-> c[4]] ] :
        c \in { x \in DueDates \X RecurrenceTypes \X Intervals \X DaysOfWeekLists :
                   x[2] = "weekly" \/ x[4] = <<>> } }

\* Request bodies of PUT and of bulk-update: one that names content fields,
\* one that names the identity and the ownership fields.
UpdatePayloads ==
    { [title |-> "Quiz", completed |-> TRUE],
      [id |-> 1, teacherEmail |-> "b@school", teacherName |-> "Bob"] }

\* Bodies of PUT and of bulk-update that name the comments field.
CommentPayloads == { [comments |-> <<>>] }

\* req.body.content of a comment: absent, empty, blank, numbers, and a text
\* with blanks around it.
Contents ==
    { Undefined, Str(<<>>), Str(<<" ", "\t">>), Num(0), Num(5),
      Str(<<" ", "o", "k", " ">>) }

\* A query string with no filter and the default limit and page.
NoFilter ==
    [ search |-> "", subject |-> "", status |-> "", priority |-> "",
      tag |-> <<>>, from |-> 0, to |-> 0, yearGroup |-> "",
      teacherEmail |-> "", limit |-> 50, page |-> 1 ]

\* The filters of a query string, one at a time and together.
FilterSets ==
    { NoFilter,
      [NoFilter EXCEPT !.subject = "math"],
      [NoFilter EXCEPT !.status = "completed"],
      [NoFilter EXCEPT !.status = "pending"],
      [NoFilter EXCEPT !.subject = "MATH", !.status = "completed"],
      [NoFilter EXCEPT !.subject = "Art", !.status = "open"],
      [NoFilter EXCEPT !.priority = "HIGH"],
      [NoFilter EXCEPT !.tag = <<"algebra", "essay">>],
      [NoFilter EXCEPT !.from = 19724, !.to = 19725],
      [NoFilter EXCEPT !.search = "a", !.teacherEmail = "A@School"],
      [NoFilter EXCEPT !.yearGroup = "Y9", !.priority = "HIGH"] }

\* limit and page: pages of one, two and three records, up to the page
\* after the last one of MaxHomeworks records.
Pagings ==
    { <<l, pg>> \in (1..3) \X (1..(MaxHomeworks + 1)) :
          pg <= TotalPages(MaxHomeworks, l) + 1 }

\* Every filter set on the default page; some of them page by page.
Queries ==
    FilterSets \cup
    { [f EXCEPT !.limit = pp[1], !.page = pp[2]] :
        f \in { NoFilter, [NoFilter EXCEPT !.subject = "math"] },
        pp \in Pagings }

\* A body with another subject, due on the second day of the series.
ArtQuiz ==
    [ Rich EXCEPT !.title = "Quiz", !.subject = "Art", !.dueDate = 19724 ]

\* The day a statistics request arrives: before, within and after the
\* due dates.
Todays == {19722, 19724, 19740}

\* Bodies of bulk-update that complete records.
CompletePayloads == { [completed |-> TRUE] }

Callers == Sessions \cup {NoSession}

\* An id no record has.
MissingIds == {999}

TargetIds == Ids(homeworks) \cup MissingIds

AllIds(file) == [ i \in 1..Len(file) |-> file[i].id ]

\* The id lists of bulk requests: none, every stored id, the first stored id
\* together with an unknown one.
IdLists ==
    { <<>>, AllIds(homeworks) } \cup
    ( IF homeworks = <<>> THEN {} ELSE { <<homeworks[1].id>> \o <<999>> } )

\* The id lists of bulk requests that name the first stored record, or the
\* first two.
FirstIds ==
    { AllIds(SubSeq(homeworks, 1, k)) : k \in 1..(IF Len(homeworks) < 2 THEN Len(homeworks) ELSE 2) }

\* Uploaded files: a document, a file of a type the filter refuses.
Pdf ==
    [ originalname |-> "a.pdf", mimeType |-> "application/pdf",
      kind |-> "binary", items |-> <<>> ]

Exe ==
    [ originalname |-> "a.exe", mimeType |-> "application/x-msdownload",
      kind |-> "binary", items |-> <<>> ]

Files == {NoFile, Pdf, Exe}

\* An element of an imported array.
Item ==
    [ title |-> "Essay", subject |-> "Math", description |-> "",
      dueDate |-> 19723, completed |-> FALSE, priority |-> "",
      tags |-> <<>>, yearGroup |-> "Y9", className |-> "",
      isRecurring |-> FALSE, recurrence |-> DefaultRecurrence,
      nextOccurrence |-> 0 ]

\* Files sent to the import: an array with an element the loop skips, a
\* JSON object, a file that is not JSON, and a file sent as application/json.
ImportFiles ==
    { NoFile, Pdf,
      [ originalname |-> "export.json", mimeType |-> "text/plain",
        kind |-> "array", items |-> <<Item, [Item EXCEPT !.title = ""]>> ],
      [ originalname |-> "one.json", mimeType |-> "text/plain",
        kind |-> "object", items |-> <<>> ],
      [ originalname |-> "export.json", mimeType |-> "application/json",
        kind |-> "array", items |-> <<Item>> ] }

\* Request bodies of POST /api/templates.
TemplatePayloads ==
    { [title |-> "Essay", subject |-> "Math", description |-> "", tags |-> <<>>],
      [title |-> "Lab", subject |-> "", description |-> "", tags |-> <<>>] }

TemplateIds == Ids(templates) \cup MissingIds

\* The ids of the stored attachments, and an id no attachment has.
AttachmentIds ==
    UNION { Ids(homeworks[i].attachments) : i \in 1..Len(homeworks) } \cup MissingIds

\* Bodies of PUT and of bulk-update that name the creation time.
StampPayloads == { [createdAt |-> 99], [createdAt |-> 0] }

\* A priority outside low, medium and high, in a body of Create, of PUT
\* and of bulk-update, and in an imported file.
Urgent == [Single EXCEPT !.priority = "urgent"]

UrgentPayloads == { [priority |-> "urgent"] }

UrgentFile ==
    [ originalname |-> "export.json", mimeType |-> "text/plain",
      kind |-> "array", items |-> <<[Item EXCEPT !.priority = "urgent"]>> ]

\* A body that names no priority and names fields of the record that a
\* body has no say in.
Forged ==
    [ title |-> "Essay", subject |-> "Math", dueDate |-> 19723,
      teacherEmail |-> "b@school", teacherName |-> "Bob", completed |-> TRUE,
      comments |-> <<[id |-> 7, content |-> <<"h", "i">>]>>,
      attachments |-> <<[id |-> 8, filename |-> "a.pdf"]>> ]

\* The same with a series asked for.
ForgedSeries ==
    Forged @@ [ isRecurring |-> TRUE,
                recurrence |-> [type |-> "daily", interval |-> 1, daysOfWeek |-> <<>>] ]

ForgedBodies == {Forged, ForgedSeries}

----------------------------------------------------------------------------
(* Specification *)

Init ==
    /\ homeworks = <<>>
    /\ nextId = 1
    /\ clock = 0
    /\ request = [op |-> "start", session |-> NoSession, id |-> 0,
                  ids |-> <<>>, payload |-> NoPayload]
    /\ response = Reply(0, "", NoData, 0)
    /\ prev = <<>>
    /\ templates = <<>>
    /\ uploads = {}
    /\ wrote = "none"
    /\ pending = NoPending
    /\ prevUploads = {}

\* A request is accepted while clock < MaxClock; its first clock reading
\* follows the last reading of the request before.
Next ==
    /\ clock < MaxClock
    /\ \/ \E s \in Callers, p \in CreatePayloads : Create(s, p, Env)
       \/ \E s \in Sessions, id \in TargetIds, body \in UpdatePayloads : Update(s, id, body, Env)
       \/ \E s \in Sessions, id \in TargetIds : Delete(s, id, Env)
       \/ \E s \in Sessions, id \in TargetIds : ToggleComplete(s, id, Env)
       \/ \E s \in Sessions, ids \in IdLists : BulkDelete(s, ids, Env)
       \/ \E s \in Sessions, ids \in IdLists, updates \in UpdatePayloads : BulkUpdate(s, ids, updates, Env)
       \/ \E s \in Sessions, id \in TargetIds, c \in {Str(<<" ">>), Str(<<" ", "o", "k", " ">>)} :
             AddComment(s, id, c, Env)
       \/ \E q \in {NoFilter, [NoFilter EXCEPT !.subject = "math", !.limit = 2]} : Query(q)
       \/ \E s \in Sessions, today \in {19724} : Stats(s, today)

Spec == Init /\ [][Next]_vars

\* A host whose disk does not fail.
Reliable == [writes |-> {"ok"}, ticks |-> {0, 1}]

\* Create alone, over the recurrence policies; one request fewer than
\* MaxClock allows, for the number of policies.
NextCreate ==
    /\ clock < MaxClock - 1
    /\ \/ \E p \in {Single} \cup BadPayloads \cup RecurringPayloads :
             \E s \in {x \in Sessions : x.teacherName = "Ann"} : Create(s, p, Reliable)
       \/ \E body \in ForgedBodies :
             \E s \in {x \in Sessions : x.teacherName = "Ann"} :
                Create(s, Destructure(body), Reliable)
       \/ Create(NoSession, Single, Reliable)

SpecCreate == Init /\ [][NextCreate]_vars

\* The guarded single-item operations over records of several owners.
NextGuard ==
    /\ clock < MaxClock
    /\ \/ \E s \in Sessions, p \in {Single, Recurring("daily", 1, <<>>)} : Create(s, p, Calm)
       \/ \E s \in Sessions, id \in TargetIds, body \in UpdatePayloads : Update(s, id, body, Env)
       \/ \E s \in Sessions, id \in TargetIds : Delete(s, id, Env)
       \/ \E s \in Sessions, id \in TargetIds : ToggleComplete(s, id, Env)

SpecGuard == Init /\ [][NextGuard]_vars

\* The bulk operations over records of several owners.
NextBulk ==
    /\ clock < MaxClock
    /\ \/ \E s \in Sessions, p \in {Single, Recurring("daily", 1, <<>>)} : Create(s, p, Calm)
       \/ \E s \in Sessions, ids \in IdLists : BulkDelete(s, ids, Env)
       \/ \E s \in Sessions, ids \in IdLists, updates \in UpdatePayloads : BulkUpdate(s, ids, updates, Calm)

SpecBulk == Init /\ [][NextBulk]_vars

\* Comments on the records of two teachers, with bodies of PUT and of
\* bulk-update that name comments.
NextComments ==
    /\ clock < MaxClock
    /\ \/ \E s \in {x \in Sessions : ~x.isAdmin} : Create(s, Single, Calm)
       \/ \E s \in Callers, id \in TargetIds, c \in Contents : AddComment(s, id, c, Env)
       \/ \E s \in Sessions, id \in TargetIds, body \in CommentPayloads : Update(s, id, body, Calm)
       \/ \E s \in Sessions, ids \in IdLists, updates \in CommentPayloads : BulkUpdate(s, ids, updates, Calm)

SpecComments == Init /\ [][NextComments]_vars

\* Queries over records of several subjects, owners and due dates, some
\* of them completed; one request more than MaxClock, for the records the
\* filters tell apart.
NextQuery ==
    /\ clock < MaxClock + 1
    /\ \/ \E p \in {ArtQuiz, Recurring("daily", 1, <<>>)} :
             \E s \in {x \in Sessions : x.teacherName = "Ann"} : Create(s, p, Calm)
       \/ \E s \in {x \in Sessions : x.teacherName = "Bob"} : Create(s, Single, Calm)
       \/ \E s \in {x \in Sessions : x.isAdmin}, id \in Ids(homeworks) :
             ToggleComplete(s, id, Calm)
       \/ \E q \in Queries : Query(q)

SpecQuery == Init /\ [][NextQuery]_vars

\* Records of two teachers and two subjects, and GET /api/homework with
\* every query string, through the router.
NextRoutes ==
    /\ clock < MaxClock
    /\ \/ \E s \in {x \in Sessions : x.teacherName = "Ann"} : Create(s, ArtQuiz, Calm)
       \/ \E s \in {x \in Sessions : x.teacherName = "Bob"} : Create(s, Single, Calm)
       \/ \E s \in {x \in Sessions : x.isAdmin}, id \in Ids(homeworks) :
             ToggleComplete(s, id, Calm)
       \/ \E q \in Queries : GetHomework(q)

SpecRoutes == Init /\ [][NextRoutes]_vars

\* Statistics over records of two teachers, some removed and some
\* completed in bulk; two requests more than MaxClock, for three records
\* of which two are completed beside a record of another teacher.
NextStats ==
    /\ clock < MaxClock + 2
    /\ \/ \E p \in {ArtQuiz, Recurring("daily", 1, <<>>)} :
             \E s \in {x \in Sessions : x.teacherName = "Ann"} : Create(s, p, Calm)
       \/ \E s \in {x \in Sessions : x.teacherName = "Bob"} : Create(s, Single, Calm)
       \/ \E s \in {x \in Sessions : ~x.isAdmin}, ids \in FirstIds : BulkDelete(s, ids, Calm)
       \/ \E s \in {x \in Sessions : ~x.isAdmin}, ids \in FirstIds, updates \in CompletePayloads :
             BulkUpdate(s, ids, updates, Calm)
       \/ \E s \in Callers, today \in Todays : Stats(s, today)

SpecStats == Init /\ [][NextStats]_vars

\* A host whose writes either succeed or fail leaving the file as it was.
Failing == [writes |-> {"ok", "intact"}, ticks |-> {0}]

\* Attachments, import and templates, on a disk that can refuse a write.
NextFiles ==
    /\ clock < MaxClock
    /\ \/ /\ homeworks = <<>>
          /\ \E s \in {x \in Sessions : x.teacherName = "Ann"} : Create(s, Single, Calm)
       \/ \E s \in Callers, id \in TargetIds, file \in Files : AddAttachment(s, id, file, Failing)
       \/ \E s \in Callers, id \in TargetIds, a \in AttachmentIds :
             RemoveAttachment(s, id, a, Failing)
       \/ \E s \in Callers, file \in ImportFiles : Import(s, file, Failing)
       \/ \E s \in Callers, p \in TemplatePayloads : CreateTemplate(s, p, Failing)
       \/ \E s \in Callers : ListTemplates(s)
       \/ \E s \in Callers, id \in TemplateIds : DeleteTemplate(s, id)

SpecFiles == Init /\ [][NextFiles]_vars

\* Uploads to one record and removals of its attachments, on a disk that
\* can refuse a write or fail in the middle of it; two requests more than
\* MaxClock, for a record that has three attachments and loses one.
NextAttach ==
    /\ clock < MaxClock + 2
    /\ \/ /\ homeworks = <<>>
          /\ clock = 0
          /\ \E s \in {x \in Sessions : x.teacherName = "Ann"} : Create(s, Single, Calm)
       \/ \E s \in {x \in Sessions : x.teacherName = "Ann"}, id \in Ids(homeworks) :
             AddAttachment(s, id, Pdf, Calm)
       \/ \E s \in {x \in Sessions : x.teacherName = "Bob"},
             id \in TargetIds, a \in AttachmentIds :
             RemoveAttachment(s, id, a, Env)

SpecAttach == Init /\ [][NextAttach]_vars

\* Updates whose body names createdAt.
NextStamps ==
    /\ clock < MaxClock
    /\ \/ \E s \in {x \in Sessions : ~x.isAdmin} : Create(s, Single, Reliable)
       \/ \E s \in Sessions, id \in TargetIds, body \in StampPayloads : Update(s, id, body, Reliable)
       \/ \E s \in Sessions, ids \in IdLists, updates \in StampPayloads :
             BulkUpdate(s, ids, updates, Reliable)

SpecStamps == Init /\ [][NextStamps]_vars

\* Requests of one process and a handler of a second process that writes
\* after them what it computed from the content it read before them.
NextRace ==
    /\ clock < MaxClock + 1
    /\ \/ /\ Len(homeworks) < 2
          /\ \E s \in {x \in Sessions : x.teacherName = "Ann"} : Create(s, Single, Calm)
       \/ \E s \in {x \in Sessions : x.teacherName = "Ann"}, id \in Ids(homeworks) :
             AddComment(s, id, Str(<<"o", "k">>), Calm)
       \/ \E s \in {x \in Sessions : x.teacherName = "Ann"}, id \in Ids(homeworks),
             body \in CompletePayloads : Update(s, id, body, Calm)
       \/ \E s \in {x \in Sessions : ~x.isAdmin}, id \in TargetIds :
             \/ \E body \in {[title |-> "Quiz"]} : Begin("update", s, id, body)
             \/ \E c \in {Str(<<"h", "i">>), Str(<<" ">>)} :
                   Begin("comment", s, id, [content |-> c])
       \/ Finish(Failing)

SpecRace == Init /\ [][NextRace]_vars

\* Requests whose payload names a priority.
NextPriority ==
    /\ clock < MaxClock
    /\ \/ \E s \in {x \in Sessions : ~x.isAdmin}, p \in {Single, Rich, Urgent} : Create(s, p, Calm)
       \/ \E s \in Sessions, id \in TargetIds, body \in UrgentPayloads : Update(s, id, body, Calm)
       \/ \E s \in Sessions, ids \in IdLists, updates \in UrgentPayloads :
             BulkUpdate(s, ids, updates, Calm)
       \/ \E s \in Callers, file \in {UrgentFile} : Import(s, file, Calm)

SpecPriority == Init /\ [][NextPriority]_vars

----------------------------------------------------------------------------
(* Reading the last request *)

Succeeded == response.status = 200 \/ response.status = 201

IndexOfId(file, id) == FindIndex(file, LAMBDA h : h.id = id)

\* The key of the series a record belongs to: the id of the first
\* occurrence, which generated occurrences carry as parentId.
SeriesKey(h) == IF h.parentId # 0 THEN h.parentId ELSE h.id

\* The request created a series: a successful Create of a body with
\* isRecurring and type daily or weekly.
CreatedSeries ==
    /\ request.op = "create"
    /\ response.status = 201
    /\ request.payload.isRecurring
    /\ request.payload.recurrence.type \in {"daily", "weekly"}

\* The ids of the series of four that the record h of file belongs to, as
\* produced by one recurring Create: the first occurrence and the records
\* generated from it.
SeriesIds(file, h) ==
    { file[i].id : i \in { j \in 1..Len(file) :
          file[j].id = SeriesKey(h) \/ file[j].parentId = SeriesKey(h) } }

InSeriesOfFour(file, h) ==
    /\ h.isRecurring
    /\ h.recurrence.type \in {"daily", "weekly"}
    /\ Cardinality(SeriesIds(file, h)) = 4

\* The last request was a successful single Delete whose target is prev[i].
DeletedAt(i) ==
    /\ request.op = "delete"
    /\ Succeeded
    /\ i = IndexOfId(prev, request.id)
    /\ i # 0

----------------------------------------------------------------------------
(* C1 *)

\* C1: a successful Delete that targets any record of a series of four
\* produced by one recurring Create leaves none of the four in the file.
C1_DeleteRemovesWholeSeries ==
    \A i \in 1..Len(prev) :
        (DeletedAt(i) /\ InSeriesOfFour(prev, prev[i]))
            => SeriesIds(prev, prev[i]) \cap Ids(homeworks) = {}

----------------------------------------------------------------------------
(* C3 *)

\* C3: no two records of the persisted set have the same id.
C3_IdsPairwiseDistinct ==
    \A i, j \in 1..Len(homeworks) :
        i # j => homeworks[i].id # homeworks[j].id

----------------------------------------------------------------------------
(* C4 *)

\* The record at position i of the file was changed by the last request, a
\* successful Update or Bulk-update.
Affected(i) ==
    /\ Succeeded
    /\ \/ request.op = "update" /\ i = IndexOfId(prev, request.id)
       \/ /\ request.op = "bulk-update"
          /\ Includes(request.ids, prev[i].id)
          /\ prev[i].teacherEmail = request.session.teacherEmail

\* C4: after a successful Update or Bulk-update the affected record has the
\* teacherEmail and teacherName it had before, whatever the payload names.
C4_OwnershipNotMutable ==
    \A i \in 1..Len(prev) :
        Affected(i) =>
            /\ homeworks[i].teacherEmail = prev[i].teacherEmail
            /\ homeworks[i].teacherName = prev[i].teacherName

----------------------------------------------------------------------------
(* C6 *)

\* C6: a successful single Delete keeps every record that is neither the
\* target nor a member of the target's series.
C6_DeleteKeepsOthers ==
    \A i, k \in 1..Len(prev) :
        (DeletedAt(i) /\ k # i /\ SeriesKey(prev[k]) # SeriesKey(prev[i]))
            => prev[k].id \in Ids(homeworks)

----------------------------------------------------------------------------
(* C7 *)

\* C7: the four records a recurring Create persists, the first occurrence
\* included, carry the same parentId, which is the first occurrence's id.
C7_SeriesSharesParentId ==
    CreatedSeries =>
        \A k \in 1..4 :
            homeworks[Len(prev) + k].parentId = homeworks[Len(prev) + 1].id

----------------------------------------------------------------------------
(* C2 *)

GuardedOps == {"update", "delete", "complete"}

\* The caller of the last request is the owner of h or an admin.
OwnerOrAdmin(h) ==
    request.session.isAdmin \/ request.session.teacherEmail = h.teacherEmail

\* C2: for an existing target and a signed-in caller, Update, Delete and
\* Toggle-complete proceed (the handler runs and answers success, or a
\* server error when the write fails) if and only if the caller is an admin
\* or the owner; otherwise the answer is PermissionDenied and the persisted
\* set is unchanged.
C2_OwnerOrAdminOnly ==
    \A i \in 1..Len(prev) :
        ( /\ request.op \in GuardedOps
          /\ request.session.teacherEmail # ""
          /\ i = IndexOfId(prev, request.id) )
        => IF OwnerOrAdmin(prev[i])
           THEN /\ response.code # "PERMISSION_DENIED"
                /\ response.status \in {200, 500}
           ELSE /\ response.status = 403
                /\ response.code = "PERMISSION_DENIED"
                /\ homeworks = prev

\* A teacher who is neither owner nor admin was refused.
C2_Witness ==
    /\ request.op \in GuardedOps
    /\ IndexOfId(prev, request.id) # 0
    /\ ~OwnerOrAdmin(prev[IndexOfId(prev, request.id)])
    /\ response.status = 403
    /\ homeworks = prev

----------------------------------------------------------------------------
(* C5 *)

\* The record is named by the bulk request and owned by its caller.
NamedAndOwned(h) ==
    /\ Includes(request.ids, h.id)
    /\ h.teacherEmail = request.session.teacherEmail

\* What identifies a stored record across a load and a save.
Identity(h) == <<h.id, h.teacherEmail, h.title, h.createdAt, h.dueDate>>

\* C5: Bulk-delete removes exactly the records named in ids and owned by
\* the caller, keeps every other record, answers no PermissionDenied and
\* returns the number of records removed.
C5_BulkDeleteOwnedOnly ==
    request.op = "bulk-delete" =>
        /\ response.code # "PERMISSION_DENIED"
        /\ Succeeded =>
             LET kept == SelectSeq(prev, LAMBDA h : ~NamedAndOwned(h))
             IN  /\ Len(homeworks) = Len(kept)
                 /\ \A i \in 1..Len(kept) : Identity(homeworks[i]) = Identity(kept[i])
                 /\ response.count = Len(prev) - Len(kept)
                 /\ response.count =
                      Cardinality({ i \in 1..Len(prev) : NamedAndOwned(prev[i]) })

\* A list naming records of the caller and of another teacher removed the
\* caller's records only.
C5_Witness ==
    /\ request.op = "bulk-delete"
    /\ Succeeded
    /\ response.count >= 1
    /\ \E i, j \in 1..Len(prev) :
          /\ NamedAndOwned(prev[i])
          /\ Includes(request.ids, prev[j].id)
          /\ prev[j].teacherEmail # request.session.teacherEmail
          /\ prev[j].id \in Ids(homeworks)
          /\ prev[i].id \notin Ids(homeworks)

----------------------------------------------------------------------------
(* C8 *)

\* A record without the fields in which an occurrence differs from the base.
Copy(h) ==
    [ h EXCEPT !.id = 0, !.dueDate = 0, !.parentId = 0, !.nextOccurrence = 0 ]

----------------------------------------------------------------------------
(* C9 *)

\* C9: with an integer interval n >= 1 and base due date d the four due
\* dates are d, d+n, d+2n, d+3n for daily and d, d+7n, d+14n, d+21n for
\* weekly with no daysOfWeek.
C9_DueDatesEvenlySpaced ==
    LET rec  == request.payload.recurrence
        d    == request.payload.dueDate
        step == IF rec.type = "daily" THEN rec.interval ELSE 7 * rec.interval
    IN  ( /\ CreatedSeries
          /\ rec.interval >= 1
          /\ rec.type = "daily" \/ rec.daysOfWeek = <<>> )
        => \A k \in 0..3 : homeworks[Len(prev) + 1 + k].dueDate = d + k * step

\* Daily with interval 2 from 2024-01-01 gave 01-01, 01-03, 01-05, 01-07.
C9_Witness ==
    /\ CreatedSeries
    /\ request.payload.recurrence.type = "daily"
    /\ request.payload.recurrence.interval = 2
    /\ \A k \in 0..3 : homeworks[Len(prev) + 1 + k].dueDate = 19723 + 2 * k

----------------------------------------------------------------------------
(* C10 *)

\* C10: Create with title, subject or dueDate missing or empty fails with
\* ValidationError and leaves the persisted set as it was.
C10_ValidationWritesNothing ==
    ( /\ request.op = "create"
      /\ request.session.teacherEmail # ""
      /\ \/ request.payload.title \in {"", Null}
         \/ request.payload.subject \in {"", Null}
         \/ request.payload.dueDate = 0 )
    => /\ response.status = 400
       /\ response.code = "VALIDATION_ERROR"
       /\ homeworks = prev

\* A body without subject was refused while the set held records.
C10_Witness ==
    /\ request.op = "create"
    /\ request.payload.subject = ""
    /\ request.payload.title # ""
    /\ response.status = 400
    /\ homeworks = prev
    /\ Len(homeworks) >= 1

----------------------------------------------------------------------------
(* C11 *)

\* The content is missing, not a string, empty, or made of white space only.
ContentRefused(c) ==
    \/ c.type # "string"
    \/ \A k \in 1..Len(c.chars) : c.chars[k] \in {" ", "\t", "\n"}

\* C11: a Comment-add by a signed-in caller whose content is missing, not a
\* string, empty or made of white space only fails with ValidationError, and
\* every record has the comments it had before.
C11_BadCommentRefused ==
    ( /\ request.op = "comment"
      /\ request.session.teacherEmail # ""
      /\ ContentRefused(request.payload.content) )
    => /\ response.status = 400
       /\ response.code = "VALIDATION_ERROR"
       /\ Len(homeworks) = Len(prev)
       /\ \A i \in 1..Len(prev) : homeworks[i].comments = prev[i].comments

\* A blank comment on a record that already had a comment was refused.
C11_Witness ==
    /\ request.op = "comment"
    /\ request.payload.content.type = "string"
    /\ Len(request.payload.content.chars) > 0
    /\ ContentRefused(request.payload.content)
    /\ response.status = 400
    /\ \E i \in 1..Len(prev) :
          /\ prev[i].id = request.id
          /\ Len(prev[i].comments) = 1
          /\ homeworks[i].comments = prev[i].comments

----------------------------------------------------------------------------
(* C12 *)

IsPrefix(a, b) == Len(a) <= Len(b) /\ SubSeq(b, 1, Len(a)) = a

\* C12: whatever the operation and its payload, a record that remains in
\* the set has the comments it had before as a prefix of its comments.
C12_CommentsAppendOnly ==
    \A i \in 1..Len(prev) : \A j \in 1..Len(homeworks) :
        homeworks[j].id = prev[i].id
            => IsPrefix(prev[i].comments, homeworks[j].comments)

----------------------------------------------------------------------------
(* C13 *)

\* C13: the record a valid Create returns has an id that no record of the
\* set had and that none of its sibling occurrences has, and its createdAt
\* equals its updatedAt, in the response and in the file.
C13_FreshIdAndEqualStamps ==
    (request.op = "create" /\ response.status = 201) =>
        LET n         == Len(prev)
            returned  == response.data[1]
            persisted == homeworks[n + 1]
        IN  /\ returned.id \notin Ids(prev)
            /\ persisted.id = returned.id
            /\ \A k \in (n + 2)..Len(homeworks) : homeworks[k].id # returned.id
            /\ returned.createdAt = returned.updatedAt
            /\ persisted.createdAt = persisted.updatedAt

----------------------------------------------------------------------------
(* C14 *)

\* The record as the handlers read it from the file.
Loaded(h) == Normalize(h, h.id, h.updatedAt)

\* A record without the stamp every write refreshes.
Unstamped(h) == [h EXCEPT !.updatedAt = 0]

\* C14: every record a successful Bulk-update modifies is stored as the
\* single Update of that record with the same payload would store it; in
\* particular it keeps its own id when the payload names an id.
C14_BulkUpdateMergesAsUpdate ==
    (request.op = "bulk-update" /\ Succeeded) =>
        \A i \in 1..Len(prev) :
            NamedAndOwned(prev[i]) =>
                /\ homeworks[i].id = prev[i].id
                /\ Unstamped(homeworks[i]) =
                     Unstamped(UpdateMerge(Loaded(prev[i]), request.payload, prev[i].id, 0))

----------------------------------------------------------------------------
(* C15 *)

ContentFields ==
    { "title", "subject", "description", "priority", "tags", "dueDate",
      "yearGroup", "className", "completed" }

\* C15: a successful Update of record r with payload p keeps the number of
\* records, stores and returns a record with r's id even when p names
\* another id, with p's value in every content field p names and with r's
\* value (as the set is read) in every field p does not name, updatedAt
\* apart.
C15_UpdateMergesPayload ==
    (request.op = "update" /\ response.status = 200) =>
        LET i == IndexOfId(prev, request.id)
            p == request.payload
            r == Loaded(prev[i])
            u == homeworks[i]
        IN  /\ Len(homeworks) = Len(prev)
            /\ u.id = r.id
            /\ \A f \in ContentFields \cap DOMAIN p : u[f] = p[f]
            /\ \A f \in (Fields \ DOMAIN p) \ {"updatedAt"} : u[f] = r[f]
            /\ Len(response.data) = 1
            /\ Unstamped(response.data[1]) = Unstamped(u)

\* An Update whose payload names the id of another record left the id and
\* the title, which the payload does not name, as they were.
C15_Witness ==
    /\ request.op = "update"
    /\ response.status = 200
    /\ "id" \in DOMAIN request.payload
    /\ request.payload.id # request.id
    /\ Len(prev) >= 2
    /\ homeworks[IndexOfId(prev, request.id)].id = request.id
    /\ homeworks[IndexOfId(prev, request.id)].title = "Essay"

----------------------------------------------------------------------------
(* C16 *)

\* The set as a query reads it.
LoadedSet == [ i \in 1..Len(prev) |-> Loaded(prev[i]) ]

FilterNames ==
    { "search", "subject", "status", "priority", "tag", "from", "to",
      "yearGroup", "teacherEmail" }

\* The filters the query string q supplies.
Supplied(q) == { f \in FilterNames : q[f] # NoFilter[f] }

\* The ids of the records the filter f of q selects when supplied alone.
Alone(q, f) == Ids(QueryMatches(LoadedSet, [NoFilter EXCEPT ![f] = q[f]]))

\* C16: a query whose first page holds the whole result returns a record if and
\* only if each supplied filter, taken alone, selects it, so the result is
\* a subset of the result of each filter alone; with a status filter the
\* records returned are the completed ones for `completed` and the others
\* for any other value, and subject=Math with status=completed returns
\* exactly the completed Math records.
C16_FiltersConjunctive ==
    ( /\ request.op = "query"
      /\ request.payload.page = 1
      /\ request.payload.limit > Len(prev) ) =>
        LET q        == request.payload
            returned == Ids(response.data)
        IN  /\ \A i \in 1..Len(prev) :
                  prev[i].id \in returned
                      <=> \A f \in Supplied(q) : prev[i].id \in Alone(q, f)
            /\ \A f \in Supplied(q) : returned \subseteq Alone(q, f)
            /\ q.status # "" =>
                  \A k \in 1..Len(response.data) :
                      response.data[k].completed = (q.status = "completed")
            /\ (q.subject = "MATH" /\ q.status = "completed" /\ Supplied(q) = {"subject", "status"}) =>
                  returned = { prev[i].id : i \in { j \in 1..Len(prev) :
                                  prev[j].subject = "Math" /\ prev[j].completed } }

\* subject=MATH with status=completed returned a record and left out a
\* pending Math record and a record of another subject.
C16_Witness ==
    /\ request.op = "query"
    /\ request.payload.subject = "MATH"
    /\ request.payload.status = "completed"
    /\ Len(response.data) >= 1
    /\ \E i, j \in 1..Len(prev) :
          /\ prev[i].subject = "Math" /\ ~prev[i].completed
          /\ prev[j].subject = "Art"
          /\ prev[i].id \notin Ids(response.data)
          /\ prev[j].id \notin Ids(response.data)

----------------------------------------------------------------------------
(* C17 *)

\* C17: the items of a query result are in ascending order of dueDate, and
\* items with the same dueDate are in the order they have in the stored set.
C17_SortedByDueDateStable ==
    request.op = "query" =>
        \A i, j \in 1..Len(response.data) :
            i < j =>
                /\ response.data[i].dueDate <= response.data[j].dueDate
                /\ response.data[i].dueDate = response.data[j].dueDate
                      => IndexOfId(prev, response.data[i].id)
                           < IndexOfId(prev, response.data[j].id)

\* A result with two records due the same day and with a record that is
\* stored after another one but due before it.
C17_Witness ==
    /\ request.op = "query"
    /\ \E i, j \in 1..Len(response.data) :
          /\ i < j
          /\ response.data[i].dueDate = response.data[j].dueDate
    /\ \E i, j \in 1..Len(response.data) :
          /\ i < j
          /\ response.data[i].dueDate < response.data[j].dueDate
          /\ IndexOfId(prev, response.data[i].id) > IndexOfId(prev, response.data[j].id)

----------------------------------------------------------------------------
(* C18 *)

\* The item lists of pages 1..k of list, one after the other.
RECURSIVE ConcatPages(_, _, _)
ConcatPages(list, limit, k) ==
    IF k = 0 THEN <<>>
    ELSE ConcatPages(list, limit, k - 1) \o Paginate(list, k, limit)

\* The least number of pages of limit items that hold total items.
PagesFor(total, limit) ==
    CHOOSE n \in 0..total : n * limit >= total /\ (n = 0 \/ (n - 1) * limit < total)

\* C18: for limit >= 1 the response reports the size of the filtered set
\* and totalPages = ceil(total/limit); page k <= totalPages holds the items
\* (k-1)*limit+1 .. k*limit of the filtered, sorted sequence, so that pages
\* 1..totalPages one after the other are that sequence; a page after the
\* last one is empty, with the same total and totalPages, and no error.
C18_PagesPartitionResult ==
    (request.op = "query" /\ request.payload.limit >= 1 /\ request.payload.page >= 1) =>
        LET q     == request.payload
            full  == QueryMatches(LoadedSet, [q EXCEPT !.limit = Len(prev) + 1, !.page = 1])
            total == Len(full)
            pages == PagesFor(total, q.limit)
            last  == IF q.page * q.limit < total THEN q.page * q.limit ELSE total
        IN  /\ response.status = 200
            /\ response.pagination.total = total
            /\ response.pagination.totalPages = pages
            /\ q.page <= pages =>
                  response.data = SubSeq(full, (q.page - 1) * q.limit + 1, last)
            /\ q.page > pages => response.data = <<>>
            /\ ConcatPages(full, q.limit, pages) = full

\* The third and last page of five records, two to a page, holds one.
C18_Witness ==
    /\ request.op = "query"
    /\ request.payload.limit = 2
    /\ request.payload.page = 3
    /\ response.pagination.total = 5
    /\ response.pagination.totalPages = 3
    /\ Len(response.data) = 1

----------------------------------------------------------------------------
(* C19 *)

\* The positions of the records the caller of the last request owns.
OwnedByCaller ==
    { i \in 1..Len(prev) : prev[i].teacherEmail = request.session.teacherEmail }

\* The integer nearest to num / den, the upper one of two.
Nearest(num, den) ==
    CHOOSE r \in 0..100 : (2 * r - 1) * den <= 2 * num /\ 2 * num < (2 * r + 1) * den

----------------------------------------------------------------------------
(* C20 *)

\* C20: in the series one recurring Create stores, the nextOccurrence of
\* the first occurrence is the dueDate of the second, and the second, third
\* and fourth occurrences have no nextOccurrence.
C20_NextOccurrenceOnFirstOnly ==
    CreatedSeries =>
        LET n == Len(prev)
        IN  /\ homeworks[n + 1].nextOccurrence = homeworks[n + 2].dueDate
            /\ homeworks[n + 1].nextOccurrence # 0
            /\ response.data[1].nextOccurrence = homeworks[n + 2].dueDate
            /\ \A k \in 2..4 : homeworks[n + k].nextOccurrence = 0

\* A weekly series every second week from 2024-01-01: the first occurrence
\* points to 2024-01-15.
C20_Witness ==
    /\ CreatedSeries
    /\ request.payload.recurrence.type = "weekly"
    /\ request.payload.recurrence.interval = 2
    /\ request.payload.recurrence.daysOfWeek = <<>>
    /\ homeworks[Len(prev) + 1].dueDate = 19723
    /\ homeworks[Len(prev) + 1].nextOccurrence = 19737
    /\ homeworks[Len(prev) + 2].nextOccurrence = 0

----------------------------------------------------------------------------
(* C21 *)

\* The operations that write to a repository file.
MutatingOps ==
    { "create", "update", "delete", "complete", "bulk-delete", "bulk-update",
      "comment", "attach", "detach", "import", "template-create" }

\* C21: when the write of a mutating operation fails, the response is a
\* server error and the files hold what they held before: homework.json is
\* as the request found it and templates.json holds no template stamped by
\* the request.
C21_FailedWriteReportedAndUndone ==
    (request.op \in MutatingOps /\ wrote \notin {"none", "ok"}) =>
        /\ response.status = 500
        /\ homeworks = prev
        /\ \A i \in 1..Len(templates) : templates[i].updatedAt < clock

----------------------------------------------------------------------------
(* C22 *)

\* The name under which the file of the last request was stored (on a host
\* whose clock does not tick within a request).
UploadedFile == StoredName(clock, request.payload)

----------------------------------------------------------------------------
(* C23 *)

\* C23: after a Template Delete, templates.json holds no template with the
\* id the request named, so that a List that follows does not show it.
C23_DeletedTemplateIsGone ==
    request.op = "template-delete" => request.id \notin Ids(templates)

----------------------------------------------------------------------------
(* C24 *)

\* The last request read the file and wrote back the list it had read: a
\* Bulk-delete that removed nothing.
SavedAsLoaded ==
    /\ request.op = "bulk-delete"
    /\ Succeeded
    /\ response.count = 0

\* C24: a save of the list a load returned stores a set equal to the one
\* that was read in every field but updatedAt, records created with a null
\* yearGroup or className included.
C24_SaveOfLoadKeepsRecords ==
    SavedAsLoaded =>
        /\ Len(homeworks) = Len(prev)
        /\ \A i \in 1..Len(prev) : Unstamped(homeworks[i]) = Unstamped(prev[i])

----------------------------------------------------------------------------
(* C25 *)

\* The operations that can remove or rewrite records.
WritingOps ==
    {"create", "update", "delete", "complete", "bulk-delete", "bulk-update"}

\* C25: a successful operation of a caller who is not an administrator
\* leaves every record of another teacher in the file.
C25_OthersRecordsStay ==
    (request.op \in WritingOps /\ Succeeded /\ ~request.session.isAdmin) =>
        \A i \in 1..Len(prev) :
            prev[i].teacherEmail # request.session.teacherEmail =>
                \E j \in 1..Len(homeworks) :
                    /\ homeworks[j].id = prev[i].id
                    /\ homeworks[j].teacherEmail = prev[i].teacherEmail

----------------------------------------------------------------------------
(* C26 *)

\* C26: every stored record with a parentId refers to a stored record.
C26_ParentIsPresent ==
    \A i \in 1..Len(homeworks) :
        homeworks[i].parentId # 0 => homeworks[i].parentId \in Ids(homeworks)

----------------------------------------------------------------------------
(* C27 *)

\* The least element of a non-empty set of integers.
Least(S) == CHOOSE x \in S : \A y \in S : x <= y

\* Days from the weekday w to the next weekday of the set D: to the least
\* day of D after w, or else to the least day of D in the week that follows.
DaysToNext(D, w) ==
    IF \E d \in D : d > w
    THEN Least({d \in D : d > w}) - w
    ELSE Least(D) + 7 - w

\* C27: weekly with a non-empty daysOfWeek of valid weekdays, in whatever
\* order the list has them: every generated due date follows the one before
\* it by DaysToNext of the weekday of that one; interval plays no part.
C27_WeeklyNextListedDay ==
    LET rec == request.payload.recurrence
        D   == { rec.daysOfWeek[i] : i \in 1..Len(rec.daysOfWeek) }
    IN  ( /\ CreatedSeries
          /\ rec.type = "weekly"
          /\ D # {}
          /\ D \subseteq 0..6 )
        => \A k \in 1..3 :
              homeworks[Len(prev) + 1 + k].dueDate - homeworks[Len(prev) + k].dueDate
                = DaysToNext(D, GetDay(homeworks[Len(prev) + k].dueDate))

----------------------------------------------------------------------------
(* C28 *)

\* C28: the due dates of a series are those the loop gives under the
\* recurrence stored on its records (interval at least 1, daysOfWeek
\* within 0..6), starting from the base due date.
C28_DatesFromStoredRecurrence ==
    CreatedSeries =>
        \A k \in 0..3 :
            homeworks[Len(prev) + 1 + k].dueDate =
                DateAfter(homeworks[Len(prev) + 1].recurrence, request.payload.dueDate, k)

----------------------------------------------------------------------------
(* C29 *)

\* The operations that change one record, named by the request.
SingleTargetOps == {"update", "complete", "comment", "attach", "detach"}

\* C29: a successful operation on one record leaves the updatedAt of every
\* other stored record as it was.
C29_OnlyTargetRestamped ==
    (request.op \in SingleTargetOps /\ Succeeded) =>
        /\ Len(homeworks) = Len(prev)
        /\ \A i \in 1..Len(prev) :
              prev[i].id # request.id =>
                  homeworks[i].updatedAt = prev[i].updatedAt

----------------------------------------------------------------------------
(* C30 *)

\* C30: every stored record was updated no earlier than it was created.
C30_UpdatedNotBeforeCreated ==
    \A i \in 1..Len(homeworks) :
        homeworks[i].updatedAt >= homeworks[i].createdAt

----------------------------------------------------------------------------
(* C31 *)

\* The last request is the one the second process handled, and its write
\* succeeded.
LateWrite ==
    /\ pending.pc = "done"
    /\ pending.at = clock
    /\ Succeeded

----------------------------------------------------------------------------
(* C32 *)

\* The record is named by the bulk request and the guard's rule lets the
\* caller modify it.
NamedAndPermitted(h) ==
    /\ Includes(request.ids, h.id)
    /\ MayModify(request.session, h)

\* The outcome of the last bulk request when it affects exactly the
\* records that satisfy Chosen.
BulkAffectsExactly(Chosen(_)) ==
    /\ (request.op = "bulk-delete" /\ Succeeded) =>
          LET kept == SelectSeq(prev, LAMBDA h : ~Chosen(h))
          IN  /\ Len(homeworks) = Len(kept)
              /\ \A i \in 1..Len(kept) :
                    Unstamped(homeworks[i]) = Unstamped(Loaded(kept[i]))
    /\ (request.op = "bulk-update" /\ Succeeded) =>
          /\ Len(homeworks) = Len(prev)
          /\ \A i \in 1..Len(prev) :
                Unstamped(homeworks[i]) =
                    IF Chosen(prev[i])
                    THEN Unstamped(BulkMerge(Loaded(prev[i]), request.payload, 0))
                    ELSE Unstamped(Loaded(prev[i]))
    /\ (request.op = "bulk-update" /\ response.code = "NOT_FOUND") =>
          \A i \in 1..Len(prev) : ~Chosen(prev[i])

\* C32 as stated: a bulk operation affects a record if and only if its id
\* is in the list and the caller is an administrator or its owner.
C32_BulkFollowsGuard == BulkAffectsExactly(NamedAndPermitted)

\* C32: a bulk operation affects a record if and only if its id is in the
\* list and the caller's email is the record's teacherEmail; the admin flag
\* plays no part.
C32_BulkByOwnershipAlone == BulkAffectsExactly(NamedAndOwned)

\* An administrator's bulk-delete named a record of another teacher, and
\* the record is still stored.
C32_Witness ==
    /\ request.op = "bulk-delete"
    /\ request.session.isAdmin
    /\ Succeeded
    /\ \E i \in 1..Len(prev) :
          /\ Includes(request.ids, prev[i].id)
          /\ prev[i].teacherEmail # request.session.teacherEmail
          /\ \E j \in 1..Len(homeworks) : Unstamped(homeworks[j]) = Unstamped(Loaded(prev[i]))

----------------------------------------------------------------------------
(* C33 *)

Priorities == {"low", "medium", "high"}

\* C33: the priority of every stored record is low, medium or high.
C33_PriorityIsOneOfThree ==
    \A i \in 1..Len(homeworks) : homeworks[i].priority \in Priorities

----------------------------------------------------------------------------
(* C34 *)

\* The request is a successful Create that asks for no repetition the
\* server generates: isRecurring false, or a type other than daily and
\* weekly.
CreatedWithoutSeries ==
    /\ request.op = "create"
    /\ response.status = 201
    /\ \/ ~request.payload.isRecurring
       \/ request.payload.recurrence.type \notin {"daily", "weekly"}

\* C34: such a Create adds exactly one record, with isRecurring as given,
\* no parentId, no nextOccurrence, and no record that names it as parent.
C34_OtherTypesAddOneRecord ==
    CreatedWithoutSeries =>
        /\ Len(homeworks) = Len(prev) + 1
        /\ LET new == homeworks[Len(homeworks)]
           IN  /\ new.id = response.data[1].id
               /\ new.isRecurring = request.payload.isRecurring
               /\ new.parentId = 0
               /\ new.nextOccurrence = 0
               /\ \A i \in 1..Len(homeworks) : homeworks[i].parentId # new.id

\* A monthly Create, stored as one recurring record.
C34_Witness ==
    /\ CreatedWithoutSeries
    /\ request.payload.isRecurring
    /\ request.payload.recurrence.type = "monthly"
    /\ Len(homeworks) = Len(prev) + 1
    /\ homeworks[Len(homeworks)].isRecurring

----------------------------------------------------------------------------
(* C35 *)

\* C35: every record a successful Create adds has the caller's teacherEmail
\* and teacherName, completed false, no comments and no attachments,
\* whatever the body says about these fields, and priority medium when the
\* body names none.
C35_CreatedOwnedAndBlank ==
    (request.op = "create" /\ response.status = 201) =>
        \A i \in (Len(prev) + 1)..Len(homeworks) :
            /\ homeworks[i].teacherEmail = request.session.teacherEmail
            /\ homeworks[i].teacherName = request.session.teacherName
            /\ homeworks[i].completed = FALSE
            /\ homeworks[i].comments = <<>>
            /\ homeworks[i].attachments = <<>>
            /\ (\E body \in ForgedBodies : request.payload = Destructure(body))
                  => homeworks[i].priority = "medium"

\* Ann's body named Bob as the owner and a completed record with a comment
\* and an attachment; the four records of the series are Ann's and blank.
C35_Witness ==
    /\ request.op = "create"
    /\ response.status = 201
    /\ request.payload = Destructure(ForgedSeries)
    /\ request.payload.teacherEmail # request.session.teacherEmail
    /\ Len(homeworks) = Len(prev) + 4
    /\ \A i \in (Len(prev) + 1)..Len(homeworks) :
          /\ homeworks[i].teacherEmail = "a@school"
          /\ homeworks[i].priority = "medium"
          /\ ~homeworks[i].completed

----------------------------------------------------------------------------
(* C36 *)

\* C36: a successful Toggle-complete of record r keeps the number and the
\* ids of the records, leaves every record but r as the set was read, stores
\* and returns r with completed negated and every other field but updatedAt
\* as it was read, and a further toggle of the stored record gives back the
\* completed value r had before.
C36_ToggleNegatesCompleted ==
    (request.op = "complete" /\ response.status = 200) =>
        LET i == IndexOfId(prev, request.id)
            r == Loaded(prev[i])
            u == homeworks[i]
        IN  /\ Len(homeworks) = Len(prev)
            /\ \A j \in 1..Len(prev) : homeworks[j].id = prev[j].id
            /\ \A j \in 1..Len(prev) :
                   j # i => Unstamped(homeworks[j]) = Unstamped(Loaded(prev[j]))
            /\ u.completed = ~r.completed
            /\ Unstamped(u) = Unstamped([r EXCEPT !.completed = ~r.completed])
            /\ Len(response.data) = 1
            /\ Unstamped(response.data[1]) = Unstamped(u)
            /\ ToggleMerge(Loaded(u), clock + 1).completed = r.completed

\* A toggle succeeded on a record that was completed, beside another record.
C36_Witness ==
    /\ request.op = "complete"
    /\ response.status = 200
    /\ Len(prev) >= 2
    /\ prev[IndexOfId(prev, request.id)].completed
    /\ ~homeworks[IndexOfId(prev, request.id)].completed

----------------------------------------------------------------------------
(* C37 *)

\* The attachment the last request named, in the set as it was.
NamedAttachment ==
    LET i == IndexOfId(prev, request.id)
        k == FindIndex(prev[i].attachments,
                       LAMBDA a : a.id = request.payload.attachmentId)
    IN  prev[i].attachments[k]

\* The last request named a record of the set and an attachment of it.
NamesAttachment ==
    LET i == IndexOfId(prev, request.id)
    IN  /\ i # 0
        /\ request.payload.attachmentId \in Ids(prev[i].attachments)

\* C37: Attachment-remove by a teacher that names a record and an
\* attachment of it, when it succeeds, leaves the record's other attachments
\* in their order and every other record's attachments as they were, and
\* takes exactly the attachment's file out of the uploads directory; the
\* directory changes only when the set was written; when the request names
\* no record or no attachment of it, the answer is NOT_FOUND and the file
\* and the directory are what they were.
C37_RemoveDetachesThenUnlinks ==
    (request.op = "detach" /\ requireTeacher(request.session)) =>
        LET i == IndexOfId(prev, request.id)
            a == request.payload.attachmentId
        IN  /\ ~NamesAttachment =>
                  /\ response.status = 404
                  /\ response.code = "NOT_FOUND"
                  /\ homeworks = prev
                  /\ uploads = prevUploads
            /\ NamesAttachment => response.status \in {200, 500}
            /\ (NamesAttachment /\ response.status = 200) =>
                  /\ wrote = "ok"
                  /\ Len(homeworks) = Len(prev)
                  /\ homeworks[i].attachments =
                         SelectSeq(prev[i].attachments, LAMBDA x : x.id # a)
                  /\ \A j \in 1..Len(prev) :
                        /\ homeworks[j].id = prev[j].id
                        /\ j # i => homeworks[j].attachments = prev[j].attachments
                  /\ uploads = prevUploads \ {NamedAttachment.path}
                  /\ NamedAttachment.path \in prevUploads
            /\ (NamesAttachment /\ response.status = 500) =>
                  /\ response.code = "DELETE_ERROR"
                  /\ wrote # "ok"
                  /\ uploads = prevUploads
            /\ uploads # prevUploads => wrote = "ok"

\* The second of three attachments was removed: the first and the third
\* are left, in that order, and so are their files.
C37_Witness ==
    /\ request.op = "detach"
    /\ response.status = 200
    /\ LET i == IndexOfId(prev, request.id)
       IN  /\ Len(prev[i].attachments) = 3
           /\ prev[i].attachments[2].id = request.payload.attachmentId
           /\ Len(homeworks[i].attachments) = 2
           /\ homeworks[i].attachments[1] = prev[i].attachments[1]
           /\ homeworks[i].attachments[2] = prev[i].attachments[3]
           /\ Cardinality(uploads) = 2

----------------------------------------------------------------------------
(* C38 *)

\* C38: every record in the answer to a GET /api/homework request passes
\* every filter the query string supplies.
C38_AnswerPassesFilters ==
    (request.op \in {"get", "query"} /\ response.status = 200) =>
        \A k \in 1..Len(response.data) :
            ApplyFilters(<<response.data[k]>>, request.payload) # <<>>

====
